---- MODULE Spec2Model ----
(***************************************************************************)
(* A model of the wander-cache services: cache-first price resolution      *)
(* (getPrice, getMarketChart), the Botega multi-source price chain         *)
(* (getBotegaPrices, fetchBotegaPrices, fetchAOPrice), retryWithDelay, the *)
(* daily sharded refresh of the token infos (updateAllTokenInfos,          *)
(* getTokenChunk, getTodayChunk) and the wallet tiers                      *)
(* (getWalletsTierInfoFromAo, getWalletTier).                              *)
(*                                                                         *)
(* Time is the millisecond clock Date.now().  The cache store is the       *)
(* Upstash Redis client: get returns the stored JSON value or null, set    *)
(* attaches a TTL in seconds, and either command rejects when the store    *)
(* cannot be reached.                                                      *)
(***************************************************************************)
EXTENDS Integers, Sequences, FiniteSets, TLC

\* ---- bounds of the model ------------------------------------------------
MaxTicks == 2
MaxCalls == 2
MaxPrice == 2
MaxTokenPrice == 1

\* ---- program constants --------------------------------------------------
FRESHNESS_SECONDS == 300
CACHE_TTL_SECONDS == 86400
MS_PER_SECOND == 1000

FreshMs == FRESHNESS_SECONDS * MS_PER_SECOND
TtlMs == CACHE_TTL_SECONDS * MS_PER_SECOND

\* The clock reading when the model starts.
StartTime == TtlMs

\* The clock advances by one of these amounts between two steps.
Deltas == {FreshMs - 1, FreshMs, TtlMs}

\* Prices CoinGecko can report for a coin, and prices a source can report for
\* a token.
PriceVals == 1..MaxPrice
TokenPriceVals == 1..MaxTokenPrice

\* ---- values ---------------------------------------------------------------
\* JavaScript null and undefined (a missing key) in a price map.
Null == -1
Undefined == -2

\* JavaScript truthiness of a price: null, undefined and 0 are falsy.
Truthy(v) == v > 0

\* v || null
OrNull(v) == IF Truthy(v) THEN v ELSE Null

\* new Date(ms).toISOString() and new Date(iso).getTime()
ToISOString(ms) == <<"iso", ms>>
GetTime(iso) == iso[2]
NoDate == <<"iso", -1>>

\* Math.floor((now - timestamp) / 1000)
CacheAge(t, timestamp) == (t - timestamp) \div MS_PER_SECOND

\* cacheAge < 5 * 60 (IsFreshNever: the test inverted into "never fresh")
IsFreshNever(t, timestamp) == FALSE
IsFresh(t, timestamp) == CacheAge(t, timestamp) < FRESHNESS_SECONDS

\* ---- the cache store -------------------------------------------------------
NoEntry == [absent |-> TRUE]

\* redis.set(key, {price, timestamp: Date.now()}, {ex: 86400})
NewEntry(p, t) == [price |-> p, timestamp |-> t, expiresAt |-> t + TtlMs]

\* redis.get(key): the stored value, or null once the TTL has elapsed.
RedisGet(cache, key, t) ==
    IF cache[key] # NoEntry /\ t < cache[key].expiresAt THEN cache[key] ELSE NoEntry

\* ---- getPrice ---------------------------------------------------------------
Symbols == {"arweave", "Arweave", "AO-COMPUTER"}
Currencies == {"usd"}

\* String.prototype.toLowerCase on the symbols of the model
ToLowerCase(s) ==
    CASE s = "Arweave" -> "arweave"
      [] s = "AO-COMPUTER" -> "ao-computer"
      [] OTHER -> s

\* `price:${symbol.toLowerCase()}:${currency.toLowerCase()}`
PriceKey(symbol, currency) == <<"price", ToLowerCase(symbol), ToLowerCase(currency)>>
PriceKeys == {PriceKey(s, c) : s \in Symbols, c \in Currencies}

VARIABLES
    now,         \* Date.now(), in milliseconds
    ticks,       \* how many times the clock has advanced
    priceCache,  \* the price:* keys of the store
    cgCalls,     \* CoinGecko /simple/price requests made so far
    gpCalls,     \* getPrice calls started so far
    gp,          \* the getPrice call in progress
    botegaCache, \* the botega:price:* keys of the store
    bgCalls,     \* getBotegaPrices calls started so far
    bg,          \* the getBotegaPrices call in progress
    chartCache,  \* the chart:arweave:* keys of the store
    mcCalls,     \* getMarketChart calls started so far
    mc,          \* the getMarketChart call in progress
    rw,          \* the retryWithDelay run in progress
    tokenInfoCache, \* the tokenInfo:* keys of the store
    upd,         \* the updateAllTokenInfos run in progress
    cal,         \* the calendar of the daily runs and the chunk computations
    tw,          \* the getWalletsTierInfoFromAo call in progress
    pg,          \* the tier and progress computation of one wallet rank
    tierCache,   \* the wallets-tier-info key of the store
    wt,          \* the getWalletsTierInfo call in progress
    gt,          \* the getTokenInfo or getTokenInfoFromAo call in progress
    kv,          \* the keys of the store the redisHelper talks to
    rh,          \* the latest redisHelper call
    us,          \* the updateAllTokenInfos run of lib/tokenInfoService.ts
    ub,          \* the updateAllBotegaPrices run in progress
    tk           \* the processed marker of one Transak order and the calls for it

laterVars == <<pg, tierCache, wt, gt, kv, rh, us, ub, tk>>
vars == <<now, ticks, priceCache, cgCalls, gpCalls, gp, botegaCache, bgCalls, bg,
          chartCache, mcCalls, mc, rw, tokenInfoCache, upd, cal, tw, laterVars>>
chartVars == <<chartCache, mcCalls, mc>>
priceVars == <<priceCache, cgCalls, gpCalls, gp>>
botegaVars == <<botegaCache, bgCalls, bg>>
tokenInfoVars == <<tokenInfoCache, upd>>
batchVars == <<rw, tokenInfoVars, cal, tw, laterVars>>
serviceVars == <<priceVars, botegaVars, chartVars, batchVars>>
notPriceVars == <<now, ticks, botegaVars, chartVars, batchVars>>
notBotegaVars == <<now, ticks, priceVars, chartVars, batchVars>>
notChartVars == <<now, ticks, priceVars, botegaVars, batchVars>>
cacheServiceVars == <<now, ticks, priceVars, botegaVars, chartVars>>

Res(status, price, fresh, cachedAt, cacheAge) ==
    [status |-> status, price |-> price, fresh |-> fresh,
     cachedAt |-> cachedAt, cacheAge |-> cacheAge]
NoResult == Res("none", Null, FALSE, NoDate, 0)
Threw == Res("threw", Null, FALSE, NoDate, 0)

GpIdle ==
    [pc |-> "idle", symbol |-> "arweave", currency |-> "usd",
     cachedPrice |-> NoEntry, readAt |-> StartTime, fetched |-> Null, path |-> "none",
     result |-> NoResult, cgAtCall |-> 0, cacheAtCall |-> [k \in PriceKeys |-> NoEntry],
     prevKey |-> <<"price", "", "">>, prevResult |-> NoResult]

\* The cache-hit return of getPrice (part_008 lines 59-66).
GetPriceHit(cached, t) ==
    Res("ok", cached.price, TRUE, ToISOString(cached.timestamp),
        CacheAge(t, cached.timestamp))

\* The return after a successful fetch (lines 76-81).
GetPriceFetched(p, t) == Res("ok", p, TRUE, ToISOString(t), 0)

\* The catch block of getPrice (lines 82-105): the stale entry read at the
\* start of the call if there is one, otherwise the error.
GetPriceOnErrorThrows(cached, t) == Threw
GetPriceOnError(cached, t) ==
    IF cached # NoEntry
    THEN Res("ok", cached.price, FALSE, ToISOString(cached.timestamp),
             CacheAge(t, cached.timestamp))
    ELSE Threw

\* Whether fetchPriceFromCoingeckoApi writes the cache (line 142).
ShouldCachePrice(symbol) == symbol = "arweave"

\* getPrice(symbol, currency) is called.
GetPriceCall(s, c) ==
    /\ gp.pc \in {"idle", "done"}
    /\ gpCalls < MaxCalls
    /\ gpCalls' = gpCalls + 1
    /\ gp' = [GpIdle EXCEPT !.pc = "read", !.symbol = s, !.currency = c,
                            !.cgAtCall = cgCalls, !.cacheAtCall = priceCache,
                            !.prevKey = IF gp.pc = "done"
                                        THEN PriceKey(gp.symbol, gp.currency)
                                        ELSE gp.prevKey,
                            !.prevResult = gp.result]
    /\ UNCHANGED <<priceCache, cgCalls>>

\* await redis.get(cacheKey) and the freshness test (lines 48-71).
GetPriceRead ==
    /\ gp.pc = "read"
    /\ \/ \* the store cannot be reached: the read rejects, outside any try
          gp' = [gp EXCEPT !.pc = "done", !.path = "readThrew", !.result = Threw,
                           !.readAt = now]
       \/ LET cached == RedisGet(priceCache, PriceKey(gp.symbol, gp.currency), now) IN
          IF cached # NoEntry /\ IsFresh(now, cached.timestamp)
          THEN gp' = [gp EXCEPT !.pc = "done", !.path = "hit", !.cachedPrice = cached,
                                !.readAt = now, !.result = GetPriceHit(cached, now)]
          ELSE gp' = [gp EXCEPT !.pc = "fetch", !.cachedPrice = cached, !.readAt = now]
    /\ UNCHANGED <<priceCache, cgCalls, gpCalls>>

\* fetchPriceFromCoingeckoApi up to the parsed price (lines 118-140).
GetPriceFetch ==
    /\ gp.pc = "fetch"
    /\ cgCalls' = cgCalls + 1
    /\ \/ \* non-2xx response or unexpected body: the fetch throws
          gp' = [gp EXCEPT !.pc = "done", !.path = "fetchFailed",
                           !.result = GetPriceOnError(gp.cachedPrice, now)]
       \/ \E p \in PriceVals :
            IF ShouldCachePrice(gp.symbol)
            THEN gp' = [gp EXCEPT !.pc = "set", !.fetched = p]
            ELSE gp' = [gp EXCEPT !.pc = "done", !.path = "fetched", !.fetched = p,
                                  !.result = GetPriceFetched(p, now)]
    /\ UNCHANGED <<priceCache, gpCalls>>

\* await redis.set(cacheKey, {price, timestamp}, {ex: 86400}) (lines 142-156).
GetPriceSet ==
    /\ gp.pc = "set"
    /\ \/ /\ priceCache' = [priceCache EXCEPT
                              ![PriceKey(gp.symbol, gp.currency)] = NewEntry(gp.fetched, now)]
          /\ gp' = [gp EXCEPT !.pc = "done", !.path = "fetched",
                              !.result = GetPriceFetched(gp.fetched, now)]
       \/ \* the write rejects: fetchPriceFromCoingeckoApi throws
          /\ gp' = [gp EXCEPT !.pc = "done", !.path = "fetchFailed",
                              !.result = GetPriceOnError(gp.cachedPrice, now)]
          /\ UNCHANGED priceCache
    /\ UNCHANGED <<cgCalls, gpCalls>>

\* Time passes.
Tick ==
    /\ ticks < MaxTicks
    /\ \E d \in Deltas : now' = now + d
    /\ ticks' = ticks + 1

PriceNext ==
    \/ \E s \in Symbols, c \in Currencies : GetPriceCall(s, c) /\ UNCHANGED notPriceVars
    \/ GetPriceRead /\ UNCHANGED notPriceVars
    \/ GetPriceFetch /\ UNCHANGED notPriceVars
    \/ GetPriceSet /\ UNCHANGED notPriceVars
    \/ Tick /\ UNCHANGED serviceVars

\* ---- getBotegaPrices (part_009) ------------------------------------------
AO_PROCESS_ID == "0syT13r0s0tgPmIed95bJnuSqaD29HQNN8D3ElLSrsc"
Tokens == {AO_PROCESS_ID, "xU9zFkq3X2ZQ6olwNVvr1vUWIjc3kXTWr7xKQD6dh10"}

\* const priceSources = [fetchTokenPricesFromBotegaApi, fetchTokenPricesFromPermaswapApi]
NumSources == 2

\* A price map: token id -> number, null, or undefined when the key is missing.
EmptyMap == [t \in Tokens |-> Undefined]
Keys(m) == {t \in Tokens : m[t] # Undefined}

\* Object.fromEntries(tokenIds.map((id) => [id, null]))
NullMap(ids) == [t \in Tokens |-> IF t \in ids THEN Null ELSE Undefined]

\* What an upstream answer can hold for a token: nothing, a zero or missing
\* price, or a price.
RawVals == {Undefined, 0} \cup TokenPriceVals

\* fetchTokenPricesFromBotegaApi on a 2xx answer: one entry per key of
\* data.Prices, tokenData?.price || null.  The API answers for the ids of the
\* batch it was sent.
BotegaApiAnswers(ids) ==
    {raw \in [Tokens -> RawVals] : \A t \in Tokens : raw[t] # Undefined <=> t \in ids}
BotegaApiPrices(raw, ids) ==
    [t \in Tokens |-> IF raw[t] = Undefined THEN Undefined ELSE OrNull(raw[t])]

\* fetchTokenPricesFromPermaswapApi on a 2xx answer: the listed tokens that
\* were asked for, +token?.price || null.
PermaswapAnswers == [Tokens -> RawVals]
PermaswapPrices(raw, ids) ==
    [t \in Tokens |-> IF raw[t] = Undefined \/ t \notin ids THEN Undefined
                      ELSE OrNull(raw[t])]

SourceAnswers(i, ids) == IF i = 1 THEN BotegaApiAnswers(ids) ELSE PermaswapAnswers
SourcePrices(i, raw, ids) ==
    IF i = 1 THEN BotegaApiPrices(raw, ids) ELSE PermaswapPrices(raw, ids)

\* The loop of fetchBotegaPrices goes on to the next source (lines 213-224).
ChainContinuesAfterSuccess(success, i) == i < NumSources
ChainContinues(success, i) == ~success /\ i < NumSources

\* tokenIds.includes(AO_PROCESS_ID) && !prices[AO_PROCESS_ID] (line 217)
NeedsAOPriceAlways(ids, prices) == AO_PROCESS_ID \in ids
NeedsAOPrice(ids, prices) == AO_PROCESS_ID \in ids /\ ~Truthy(prices[AO_PROCESS_ID])

\* return prices (line 221): the map of the source that succeeded.
ChainResultMerged(maps, i) ==
    [t \in Tokens |-> IF maps[i][t] # Undefined THEN maps[i][t] ELSE maps[1][t]]
ChainResult(maps, i) == maps[i]

\* All sources failed (line 227).
AllFailedResultEmpty(ids) == EmptyMap
AllFailedResult(ids) == NullMap(ids)

\* fetchAOPrice (lines 234-248): the first truthy price of CoinGecko,
\* CoinMarketCap; each source answers null when its request fails.
AOVals == {Null, 0} \cup TokenPriceVals
FetchAOPrice(cg, cmc) == IF Truthy(cg) THEN cg ELSE IF Truthy(cmc) THEN cmc ELSE Null

BgIdle ==
    [pc |-> "idle", tokenIds |-> {}, forceRefresh |-> FALSE,
     result |-> EmptyMap, cacheInfo |-> EmptyMap, tokensToFetch |-> {},
     cachedRead |-> [t \in Tokens |-> NoEntry], readsFailed |-> {},
     srcIdx |-> 1, invoked |-> <<>>, outcomes |-> <<>>, srcRet |-> <<>>,
     okSrc |-> 0, prices |-> EmptyMap, aoCalls |-> 0, aoSources |-> 0,
     cacheAtCall |-> [t \in Tokens |-> NoEntry]]

\* The store outlives the process: at start a key is missing or holds what an
\* earlier getBotegaPrices call wrote, either just now or five minutes ago.
StoredBotegaEntries ==
    {NoEntry} \cup {NewEntry(p, ts) : p \in {Null} \cup TokenPriceVals,
                                     ts \in {StartTime, StartTime - FreshMs}}

\* getBotegaPrices(tokenIds, forceRefresh) is called; ids is new Set(tokenIds).
GetBotegaPricesCall(ids, force) ==
    /\ bg.pc = "idle"
    /\ bgCalls' = bgCalls + 1
    /\ bg' = [BgIdle EXCEPT !.pc = "cache", !.tokenIds = ids, !.forceRefresh = force,
                            !.cacheAtCall = botegaCache]
    /\ UNCHANGED botegaCache

\* The cache lookups, awaited with Promise.allSettled (lines 56-77).  A lookup
\* that rejects leaves its token out of result and out of tokensToFetch.
GetBotegaPricesCache ==
    /\ bg.pc = "cache"
    /\ \E failed \in SUBSET bg.tokenIds :
        LET read == [t \in Tokens |->
                       IF t \in bg.tokenIds \ failed
                       THEN RedisGet(botegaCache, t, now) ELSE NoEntry]
            served == {t \in bg.tokenIds \ failed :
                         read[t] # NoEntry /\ ~bg.forceRefresh}
            toFetch == {t \in bg.tokenIds \ failed :
                          t \notin served \/ ~IsFresh(now, read[t].timestamp)}
        IN bg' = [bg EXCEPT
                    !.cachedRead = read,
                    !.readsFailed = failed,
                    !.result = [t \in Tokens |->
                                  IF t \in served THEN read[t].price ELSE Undefined],
                    !.cacheInfo = [t \in Tokens |->
                                     IF t \in served THEN read[t].timestamp ELSE Undefined],
                    !.tokensToFetch = toFetch,
                    !.pc = IF toFetch = {} THEN "done" ELSE "src"]
    /\ UNCHANGED <<botegaCache, bgCalls>>

\* One turn of the loop of fetchBotegaPrices: await fetchPrices(tokenIds)
\* (lines 213-227).  A source catches its own errors and answers
\* [false, null map].
FetchBotegaSource ==
    /\ bg.pc = "src"
    /\ LET i == bg.srcIdx
           ids == bg.tokensToFetch
           Step(success, prices) ==
               LET rets == Append(bg.srcRet, prices)
                   b1 == [bg EXCEPT !.invoked = Append(@, i),
                                    !.outcomes = Append(@, success),
                                    !.srcRet = rets]
                   b2 == IF success /\ bg.okSrc = 0
                         THEN [b1 EXCEPT !.okSrc = i, !.prices = ChainResult(rets, i)]
                         ELSE b1
               IN IF ChainContinues(success, i)
                  THEN [b2 EXCEPT !.srcIdx = i + 1]
                  ELSE IF b2.okSrc # 0
                       THEN [b2 EXCEPT !.pc = IF NeedsAOPrice(ids, b2.prices)
                                              THEN "ao" ELSE "write"]
                       ELSE [b2 EXCEPT !.prices = AllFailedResult(ids), !.pc = "write"]
       IN \/ bg' = Step(FALSE, NullMap(ids))
          \/ \E raw \in SourceAnswers(i, ids) : bg' = Step(TRUE, SourcePrices(i, raw, ids))
    /\ UNCHANGED <<botegaCache, bgCalls>>

\* const aoPrice = await fetchAOPrice(); if (aoPrice) prices[AO] = aoPrice
\* (lines 218-219).
FetchBotegaAO ==
    /\ bg.pc = "ao"
    /\ \E cg \in AOVals, cmc \in AOVals :
        LET aoPrice == FetchAOPrice(cg, cmc) IN
        bg' = [bg EXCEPT
                 !.aoCalls = @ + 1,
                 !.aoSources = IF Truthy(cg) THEN 1 ELSE 2,
                 !.prices = IF Truthy(aoPrice)
                            THEN [@ EXCEPT ![AO_PROCESS_ID] = aoPrice] ELSE @,
                 !.pc = "write"]
    /\ UNCHANGED <<botegaCache, bgCalls>>

\* Lines 83-115: every fetched entry goes into result and is written to the
\* cache; when a write rejects, the catch block nulls the falsy results.
GetBotegaPricesWrite ==
    /\ bg.pc = "write"
    /\ LET fetched == Keys(bg.prices)
           res == [t \in Tokens |-> IF t \in fetched THEN bg.prices[t] ELSE bg.result[t]]
           info == [t \in Tokens |-> IF t \in fetched THEN now ELSE bg.cacheInfo[t]]
       IN \E written \in SUBSET fetched :
            /\ botegaCache' = [t \in Tokens |->
                                 IF t \in written THEN NewEntry(bg.prices[t], now)
                                 ELSE botegaCache[t]]
            /\ IF written = fetched
               THEN bg' = [bg EXCEPT !.result = res, !.cacheInfo = info, !.pc = "done"]
               ELSE bg' = [bg EXCEPT
                             !.result = [t \in Tokens |->
                                           IF t \in bg.tokensToFetch /\ ~Truthy(res[t])
                                           THEN Null ELSE res[t]],
                             !.cacheInfo = [t \in Tokens |->
                                              IF t \in bg.tokensToFetch /\ ~Truthy(res[t])
                                              THEN now ELSE info[t]],
                             !.pc = "done"]
    /\ UNCHANGED bgCalls

\* Time passes during the call.  getBotegaPrices reads the clock in its cache
\* lookups and before its cache writes only.
BotegaTick == bg.pc \in {"cache", "write"} /\ Tick

BotegaNext ==
    \/ \E ids \in SUBSET Tokens \ {{}}, force \in BOOLEAN :
         GetBotegaPricesCall(ids, force) /\ UNCHANGED notBotegaVars
    \/ GetBotegaPricesCache /\ UNCHANGED notBotegaVars
    \/ FetchBotegaSource /\ UNCHANGED notBotegaVars
    \/ FetchBotegaAO /\ UNCHANGED notBotegaVars
    \/ GetBotegaPricesWrite /\ UNCHANGED notBotegaVars
    \/ BotegaTick /\ UNCHANGED serviceVars

\* ---- getMarketChart (part_008 lines 254-344) --------------------------------
\* Object.keys(CHART_PERIODS)
VALID_TIME_PERIODS == {"1", "7", "30", "90", "180", "365"}

\* The periods the model asks for: a valid one and an invalid one.
DaysAsked == {"7", "2"}

\* `chart:arweave:${currency}:${daysStr}`
ChartKey(currency, daysStr) == <<"chart", "arweave", currency, daysStr>>
ChartKeys == {ChartKey(c, d) : c \in Currencies, d \in DaysAsked \cap VALID_TIME_PERIODS}

\* redis.set(cacheKey, {prices, timestamp: new Date().toISOString()}, {ex: 86400})
NewChartEntry(d, t) ==
    [prices |-> d, timestamp |-> ToISOString(t), expiresAt |-> t + TtlMs]

McIdle ==
    [pc |-> "idle", currency |-> "usd", days |-> "7", read1 |-> NoEntry,
     existedAtStart |-> FALSE, fetched |-> Null, path |-> "none", result |-> NoResult]

\* The cached chart served by getMarketChart (lines 279-286 and 332-339).
ChartFromCache(cached, fresh, t) ==
    Res("ok", cached.prices, fresh, cached.timestamp,
        CacheAge(t, GetTime(cached.timestamp)))

\* getMarketChart(currency, days) is called; an invalid period throws at once.
GetMarketChartCall(c, d) ==
    /\ mc.pc \in {"idle", "done"}
    /\ mcCalls < MaxCalls
    /\ mcCalls' = mcCalls + 1
    /\ IF d \notin VALID_TIME_PERIODS
       THEN mc' = [McIdle EXCEPT !.pc = "done", !.currency = c, !.days = d,
                                 !.path = "invalid", !.result = Threw]
       ELSE mc' = [McIdle EXCEPT !.pc = "read", !.currency = c, !.days = d,
                                 !.existedAtStart =
                                     RedisGet(chartCache, ChartKey(c, d), now) # NoEntry]
    /\ UNCHANGED chartCache

\* The first cache read, inside the try block (lines 269-288).
GetMarketChartRead ==
    /\ mc.pc = "read"
    /\ \/ mc' = [mc EXCEPT !.pc = "reread"]      \* the read rejects
       \/ LET cached == RedisGet(chartCache, ChartKey(mc.currency, mc.days), now) IN
          IF cached # NoEntry /\ IsFresh(now, GetTime(cached.timestamp))
          THEN mc' = [mc EXCEPT !.pc = "done", !.path = "hit", !.read1 = cached,
                                !.result = ChartFromCache(cached, TRUE, now)]
          ELSE mc' = [mc EXCEPT !.pc = "fetch", !.read1 = cached]
    /\ UNCHANGED <<chartCache, mcCalls>>

\* The CoinGecko market_chart request (lines 290-303).
GetMarketChartFetch ==
    /\ mc.pc = "fetch"
    /\ \/ mc' = [mc EXCEPT !.pc = "reread"]      \* non-2xx or error status
       \/ \E d \in PriceVals : mc' = [mc EXCEPT !.pc = "set", !.fetched = d]
    /\ UNCHANGED <<chartCache, mcCalls>>

\* The cache write and the fresh return (lines 305-320).
GetMarketChartSet ==
    /\ mc.pc = "set"
    /\ \/ /\ chartCache' = [chartCache EXCEPT
                              ![ChartKey(mc.currency, mc.days)] =
                                  NewChartEntry(mc.fetched, now)]
          /\ mc' = [mc EXCEPT !.pc = "done", !.path = "fetched",
                              !.result = Res("ok", mc.fetched, TRUE, ToISOString(now), 0)]
       \/ /\ mc' = [mc EXCEPT !.pc = "reread"]   \* the write rejects
          /\ UNCHANGED chartCache
    /\ UNCHANGED mcCalls

\* The catch block (lines 321-343): the cache is read again; the error is
\* rethrown when that read finds nothing, and the read itself may reject.
GetMarketChartReread ==
    /\ mc.pc = "reread"
    /\ \/ mc' = [mc EXCEPT !.pc = "done", !.path = "rereadThrew", !.result = Threw]
       \/ LET cached == RedisGet(chartCache, ChartKey(mc.currency, mc.days), now) IN
          IF cached # NoEntry
          THEN mc' = [mc EXCEPT !.pc = "done", !.path = "stale",
                                !.result = ChartFromCache(cached, FALSE, now)]
          ELSE mc' = [mc EXCEPT !.pc = "done", !.path = "rethrown", !.result = Threw]
    /\ UNCHANGED <<chartCache, mcCalls>>

ChartNext ==
    \/ \E c \in Currencies, d \in DaysAsked :
         GetMarketChartCall(c, d) /\ UNCHANGED notChartVars
    \/ GetMarketChartRead /\ UNCHANGED notChartVars
    \/ GetMarketChartFetch /\ UNCHANGED notChartVars
    \/ GetMarketChartSet /\ UNCHANGED notChartVars
    \/ GetMarketChartReread /\ UNCHANGED notChartVars
    \/ Tick /\ UNCHANGED serviceVars

\* ---- retryWithDelay (src/utils/retry.utils.ts) ------------------------------
\* The largest maxAttempts a run is started with.
MaxAttempts == 3

\* maxAttempts = 3 and initialDelay = 1000 when the caller passes neither.
DEFAULT_MAX_ATTEMPTS == 3
DEFAULT_INITIAL_DELAY == 1000

\* getDelay: (attempt) => milliseconds; the default is () => initialDelay.
GetDelayFns ==
    [0..(MaxAttempts - 1) -> {DEFAULT_INITIAL_DELAY, 2 * DEFAULT_INITIAL_DELAY}]
DefaultGetDelay == [k \in 0..(MaxAttempts - 1) |-> DEFAULT_INITIAL_DELAY]

\* The errors an invocation of fn can reject with, and what fn can resolve to
\* when the caller is not one of the services.
FnErrors == {"e1", "e2"}
FnVals == {<<"v1">>, <<"v2">>}

RwIdle ==
    [pc |-> "idle", maxAttempts |-> 0, getDelay |-> DefaultGetDelay, attempts |-> 0,
     events |-> <<>>, thrown |-> <<>>, outcome |-> "none", resolved |-> <<>>,
     value |-> <<>>, error |-> ""]

\* attempts === maxAttempts - 1 (IsLastAttemptNever: the test dropped).
IsLastAttemptNever(attempts, maxAttempts) == FALSE
IsLastAttempt(attempts, maxAttempts) == attempts = maxAttempts - 1

\* The argument of fn(attempts) (FnArgZero: fn called without the index).
FnArgZero(attempts) == 0
FnArg(attempts) == attempts

\* retryWithDelay(fn, n, initialDelay, gd) is entered.
RetryWithDelayCall(n, gd) ==
    /\ rw.pc = "idle"
    /\ rw' = [rw EXCEPT !.pc = "loop", !.maxAttempts = n, !.getDelay = gd]

\* One turn of the loop up to its await: fn(attempts) is invoked and either
\* resolves, which returns from retryWithDelay, or rejects, which rethrows on
\* the last attempt and otherwise leads to the sleep.
RetryInvoke(vals) ==
    /\ rw.pc = "loop"
    /\ rw.attempts < rw.maxAttempts
    /\ \/ \E v \in vals :
            rw' = [rw EXCEPT !.events = Append(@, <<"fn", FnArg(rw.attempts)>>),
                             !.resolved = v, !.value = v,
                             !.outcome = "returned", !.pc = "done"]
       \/ \E e \in FnErrors :
            IF IsLastAttempt(rw.attempts, rw.maxAttempts)
            THEN rw' = [rw EXCEPT !.events = Append(@, <<"fn", FnArg(rw.attempts)>>),
                                  !.thrown = Append(@, e), !.error = e,
                                  !.outcome = "threw", !.pc = "done"]
            ELSE rw' = [rw EXCEPT !.events = Append(@, <<"fn", FnArg(rw.attempts)>>),
                                  !.thrown = Append(@, e), !.pc = "sleep"]

\* await sleep(getDelay(attempts)), then attempts++.
RetrySleep ==
    /\ rw.pc = "sleep"
    /\ rw' = [rw EXCEPT !.events = Append(@, <<"sleep", rw.getDelay[rw.attempts]>>),
                        !.attempts = @ + 1, !.pc = "loop"]

\* The loop ends without a return: throw new Error("Max attempts reached").
RetryExhausted ==
    /\ rw.pc = "loop"
    /\ rw.attempts >= rw.maxAttempts
    /\ rw' = [rw EXCEPT !.error = "Max attempts reached", !.outcome = "threw",
                        !.pc = "done"]

notRetryVars == <<cacheServiceVars, tokenInfoVars, cal, tw, laterVars>>

RetryNext ==
    \/ \E n \in 0..MaxAttempts, gd \in GetDelayFns :
         RetryWithDelayCall(n, gd) /\ UNCHANGED notRetryVars
    \/ RetryInvoke(FnVals) /\ UNCHANGED notRetryVars
    \/ RetrySleep /\ UNCHANGED notRetryVars
    \/ RetryExhausted /\ UNCHANGED notRetryVars

\* ---- chunk.utils.ts -----------------------------------------------------------
\* The largest numChunks, the longest token id hashed, and the number of
\* consecutive daily runs followed.
MaxChunks == 4
MaxIdLen == 2
MaxDays == 6

\* A 32-bit unsigned integer is the pair <<high 16 bits, low 16 bits>>.
W16 == 65536

\* fastHash(str): FNV-1a over the code units with the shift-and-add form of
\* the multiplication by the FNV prime, then the final avalanche.
fastHash(str) ==
    LET FNV_OFFSET_BASIS == <<33052, 40389>>   \* 0x811c9dc5
        AVALANCHE_1 == <<34283, 51819>>        \* 0x85ebca6b
        AVALANCHE_2 == <<49842, 44597>>        \* 0xc2b2ae35
        Pow2(k) == 2 ^ k
        RECURSIVE Xor(_, _)
        Xor(a, b) == IF a = 0 /\ b = 0 THEN 0
                     ELSE ((a + b) % 2) + 2 * Xor(a \div 2, b \div 2)
        XorW(x, y) == <<Xor(x[1], y[1]), Xor(x[2], y[2])>>
        \* x << k, truncated to 32 bits
        Shl(x, k) == IF k >= 16
                     THEN <<(x[2] * Pow2(k - 16)) % W16, 0>>
                     ELSE <<(x[1] * Pow2(k) + (x[2] * Pow2(k)) \div W16) % W16,
                            (x[2] * Pow2(k)) % W16>>
        \* x >>> k, for k <= 16
        Shr(x, k) == <<x[1] \div Pow2(k),
                       (x[1] % Pow2(k)) * Pow2(16 - k) + x[2] \div Pow2(k)>>
        \* (a + b + ...) >>> 0
        RECURSIVE SumHi(_)
        SumHi(xs) == IF xs = <<>> THEN 0 ELSE Head(xs)[1] + SumHi(Tail(xs))
        RECURSIVE SumLo(_)
        SumLo(xs) == IF xs = <<>> THEN 0 ELSE Head(xs)[2] + SumLo(Tail(xs))
        Sum(xs) == <<(SumHi(xs) + SumLo(xs) \div W16) % W16, SumLo(xs) % W16>>
        \* (x * y) mod 2^16 for 16-bit x and y
        MulLow(x, y) == ((x % 256) * y + (((x \div 256) * y) % 256) * 256) % W16
        \* the high 16 bits of the 32-bit product x * y of 16-bit x and y
        MulHigh(x, y) == ((x % 256) * y + (((x \div 256) * y) % 256) * 256) \div W16
                            + ((x \div 256) * y) \div 256
        \* Math.imul(x, y) >>> 0
        Imul(x, y) == <<(MulHigh(x[2], y[2]) + MulLow(x[2], y[1])
                            + MulLow(x[1], y[2])) % W16,
                        MulLow(x[2], y[2])>>
        Round(hash, c) ==
            LET h == XorW(hash, <<0, c>>)
            IN  Sum(<<h, Shl(h, 1), Shl(h, 4), Shl(h, 7), Shl(h, 8), Shl(h, 24)>>)
        RECURSIVE Loop(_, _)
        Loop(hash, i) == IF i > Len(str) THEN hash
                         ELSE Loop(Round(hash, str[i]), i + 1)
        h0 == Loop(FNV_OFFSET_BASIS, 1)
        h1 == XorW(h0, Shr(h0, 16))
        h2 == Imul(h1, AVALANCHE_1)
        h3 == XorW(h2, Shr(h2, 13))
        h4 == Imul(h3, AVALANCHE_2)
    IN  XorW(h4, Shr(h4, 16))

\* hash % numChunks for the unsigned hash fastHash returns (HashModSigned: for
\* the hash read as a signed 32-bit integer, as it is before the last >>> 0).
HashModSigned(h, n) ==
    IF h[1] >= 32768
    THEN 0 - ((((W16 - 1 - h[1]) % n) * (W16 % n) + ((W16 - h[2]) % n)) % n)
    ELSE ((h[1] % n) * (W16 % n) + (h[2] % n)) % n
HashMod(h, n) == ((h[1] % n) * (W16 % n) + (h[2] % n)) % n

\* getTokenChunk(tokenId, numChunks)
getTokenChunk(tokenId, numChunks) == HashMod(fastHash(tokenId), numChunks)

\* A string is the sequence of its UTF-16 code units.  The strings hashed
\* are those of "0" and "a" up to MaxIdLen units; their chunks are computed
\* once.
HashInputs == UNION {[1..l -> {48, 97}] : l \in 0..MaxIdLen}
TokenChunks ==
    LET RECURSIVE Row(_, _)
        Row(n, ids) ==
            IF ids = {} THEN <<>>
            ELSE LET id == CHOOSE i \in ids : TRUE
                 IN  (id :> getTokenChunk(id, n)) @@ Row(n, ids \ {id})
        RECURSIVE Table(_)
        Table(n) == IF n = 0 THEN <<>> ELSE (n :> Row(n, HashInputs)) @@ Table(n - 1)
    IN  Table(MaxChunks)

\* Local time is counted in hours from 2023-01-01T00:00; a year is 365 days
\* long, a leap year 366.
HOURS_PER_DAY == 24

\* getDayOfYear(): the whole days since new Date(year, 0, 0), the last day of
\* the year before; the years 2023 to 2025 start on the days 0, 365 and 731.
getDayOfYear(h) ==
    LET YearStartDay == <<0, 365, 731, 1096>>
        \* now.getFullYear(), as an index into YearStartDay
        year == CHOOSE y \in 1..3 : /\ YearStartDay[y] * HOURS_PER_DAY <= h
                                    /\ h < YearStartDay[y + 1] * HOURS_PER_DAY
        start == (YearStartDay[year] - 1) * HOURS_PER_DAY
    IN  (h - start) \div HOURS_PER_DAY

\* getTodayChunk(numChunks)
getTodayChunk(h, numChunks) == getDayOfYear(h) % numChunks

\* The times of the first daily run followed: 03:00 on 2023-12-28, on
\* 2024-06-01 and on 2024-12-28.
FirstRuns == {d * HOURS_PER_DAY + 3 : d \in {361, 517, 727}}

CalIdle ==
    [pc |-> "idle", numChunks |-> 1, hour |-> 0, days |-> 0, chunks |-> <<>>,
     tokenId |-> <<>>, tokenChunk |-> Undefined, prevId |-> <<>>,
     prevChunk |-> Undefined]

\* The daily schedule starts: numChunks is fixed for all runs.
CalStart(h, n) ==
    /\ cal.pc = "idle"
    /\ cal' = [cal EXCEPT !.pc = "run", !.hour = h, !.numChunks = n]

\* The run of the day computes getTodayChunk(numChunks).
GetTodayChunkCall ==
    /\ cal.pc = "run"
    /\ cal' = [cal EXCEPT !.pc = "wait",
                          !.chunks = Append(@, getTodayChunk(cal.hour, cal.numChunks))]

\* The next calendar day comes.
NextDay ==
    /\ cal.pc = "wait"
    /\ cal.days < MaxDays
    /\ cal' = [cal EXCEPT !.pc = "run", !.hour = @ + HOURS_PER_DAY, !.days = @ + 1]

\* getTokenChunk(id, numChunks) is computed for a token id; the call before
\* it is remembered.
GetTokenChunkCall(id) ==
    /\ cal.pc \in {"run", "wait"}
    /\ cal' = [cal EXCEPT !.tokenId = id,
                          !.tokenChunk = TokenChunks[cal.numChunks][id],
                          !.prevId = cal.tokenId,
                          !.prevChunk = cal.tokenChunk]

notCalVars == <<cacheServiceVars, rw, tokenInfoVars, tw, laterVars>>

ChunkNext ==
    \/ \E h \in FirstRuns, n \in 1..MaxChunks : CalStart(h, n) /\ UNCHANGED notCalVars
    \/ GetTodayChunkCall /\ UNCHANGED notCalVars
    \/ NextDay /\ UNCHANGED notCalVars
    \/ \E id \in HashInputs : GetTokenChunkCall(id) /\ UNCHANGED notCalVars

\* ---- updateAllTokenInfos (part_007) --------------------------------------------
\* The most pages a scan is split into, the largest maxRetries and concurrency
\* a run is started with, and the number of distinct answers of a token.
MaxPages == 2
MaxRetries == 1
MaxConcurrency == 2
MaxInfo == 1

\* The token ids with a tokenInfo:* key in the store: "0", "a", "00", "aa".
TokenIds == {<<48>>, <<97>>, <<48, 48>>, <<97, 97>>}

\* What the Info dryrun of a token can answer; the value cached before is 0.
InfoVals == 1..MaxInfo

\* The value of a set of tokenInfo:<id>: { tokenInfo, timestamp: Date.now() }
\* (NewTokenEntryKeepsTimestamp: the timestamp of the entries stored before).
NewTokenEntryKeepsTimestamp(info, t) == [tokenInfo |-> info, timestamp |-> 0]
NewTokenEntry(info, t) == [tokenInfo |-> info, timestamp |-> t]

\* numChunks of a run (4 when the caller passes none), and the local time, in
\* hours, at which a run starts: 03:00 on 2023-12-30 and on 2023-12-31.
DEFAULT_NUM_CHUNKS == 4
NumChunksVals == {2, DEFAULT_NUM_CHUNKS}
RefreshHours == {d * HOURS_PER_DAY + 3 : d \in {363, 364}}

NoTask == [st |-> "none", attempts |-> 0, info |-> Undefined]

UpdIdle ==
    [pc |-> "idle", maxRetries |-> 0, concurrency |-> 1, numChunks |-> 1,
     startHour |-> 0, hour |-> 0, todayChunk |-> 0,
     remaining |-> {}, cursor |-> "0", pages |-> 0, taskPages |-> 0,
     tasks |-> [t \in TokenIds |-> NoTask],
     fetchCount |-> [t \in TokenIds |-> 0], resolvedFetches |-> {},
     results |-> [t \in TokenIds |-> Undefined], failedUpdates |-> {},
     log |-> <<>>, scanFailed |-> FALSE, outcome |-> "none",
     cacheAtCall |-> [t \in TokenIds |-> NoEntry]]

\* getTokenChunk(id, numChunks) === todayChunk (InTodayChunkAll: no filter).
InTodayChunkAll(id, numChunks, todayChunk) == TRUE
InTodayChunk(id, numChunks, todayChunk) == TokenChunks[numChunks][id] = todayChunk

\* The save argument of the refresher's getTokenInfoFromAo(tokenId, false)
\* (RefresherSaveDefault: the argument left out, so that save = true).
RefresherSaveDefault == TRUE
RefresherSave == FALSE

\* p-limit starts a task only while fewer than `concurrency` tasks are active
\* (LimitAdmitsAlways: the tasks started without the limiter).
LimitAdmitsAlways(active, concurrency) == TRUE
LimitAdmits(active, concurrency) == active < concurrency

\* The tasks of the page holding a slot of the limiter, and the fetches in
\* flight.
ActiveTasks(tasks) == {t \in TokenIds : tasks[t].st \in {"fetching", "backoff"}}
InFlight(tasks) == {t \in TokenIds : tasks[t].st = "fetching"}
PageTasks(tasks) == {t \in TokenIds : tasks[t].st # "none"}

\* failedUpdates after the results of a page were read (FailedUpdatesDropped:
\* a failure is not recorded).
FailedUpdatesDropped(failedUpdates, tasks) == failedUpdates
FailedUpdatesAfter(failedUpdates, tasks) ==
    failedUpdates \cup {t \in TokenIds : tasks[t].st = "failed"}

\* updateAllTokenInfos(maxRetries, retryDelay, concurrency, numChunks) is
\* entered at local time h: todayChunk is computed, the cursor is "0".
UpdateAllTokenInfosCall(r, c, n, h) ==
    /\ upd.pc = "idle"
    /\ upd' = [upd EXCEPT !.pc = "scan", !.maxRetries = r, !.concurrency = c,
                          !.numChunks = n, !.startHour = h, !.hour = h,
                          !.todayChunk = getTodayChunk(h, n),
                          !.remaining = {t \in TokenIds : tokenInfoCache[t] # NoEntry},
                          !.cacheAtCall = tokenInfoCache]
    /\ UNCHANGED tokenInfoCache

\* Where the loop goes after a page: while (cursor !== "0").
AfterPage(cursor) == IF cursor = "0" THEN "done" ELSE "scan"

\* redis.scan(cursor, ...): it rejects, which rejects the run, or it returns
\* some of the keys not returned yet and the next cursor; the last page has
\* cursor "0".  The keys of today's chunk become the tasks of the page; a page
\* without such a key is skipped.
UpdScan ==
    /\ upd.pc = "scan"
    /\ \/ upd' = [upd EXCEPT !.pc = "done", !.scanFailed = TRUE, !.outcome = "threw"]
       \/ \E keys \in SUBSET upd.remaining, nextCursor \in {"0", "1"} :
            /\ nextCursor = "0" => keys = upd.remaining
            /\ nextCursor = "1" => upd.pages + 1 < MaxPages
            /\ LET tokensToProcess ==
                       {t \in keys : InTodayChunk(t, upd.numChunks, upd.todayChunk)}
               IN  upd' = [upd EXCEPT
                       !.remaining = @ \ keys,
                       !.cursor = nextCursor,
                       !.pages = @ + 1,
                       !.taskPages = IF tokensToProcess = {} THEN @ ELSE @ + 1,
                       !.tasks = [t \in TokenIds |->
                                    IF t \in tokensToProcess
                                    THEN [NoTask EXCEPT !.st = "queued"] ELSE NoTask],
                       !.pc = IF tokensToProcess = {} THEN AfterPage(nextCursor)
                              ELSE "page",
                       !.outcome = IF tokensToProcess = {} /\ nextCursor = "0"
                                   THEN "returned" ELSE @]
    /\ UNCHANGED tokenInfoCache

\* The limiter starts a queued task: its first fetch begins.
TaskStart(t) ==
    /\ upd.pc = "page"
    /\ upd.tasks[t].st = "queued"
    /\ LimitAdmits(Cardinality(ActiveTasks(upd.tasks)), upd.concurrency)
    /\ upd' = [upd EXCEPT !.tasks[t].st = "fetching", !.fetchCount[t] = @ + 1]
    /\ UNCHANGED tokenInfoCache

\* getTokenInfoFromAo(t, save) settles: the dryrun answered with the token's
\* info, which is cached when save is set, or it failed; p-retry then runs the
\* fetch again after a timeout unless maxRetries retries were made.
FetchSettle(t) ==
    /\ upd.pc = "page"
    /\ upd.tasks[t].st = "fetching"
    /\ \/ \E info \in InfoVals :
            /\ upd' = [upd EXCEPT !.tasks[t].st = "ok", !.tasks[t].info = info,
                                  !.tasks[t].attempts = @ + 1,
                                  !.resolvedFetches = @ \cup {t}]
            /\ tokenInfoCache' =
                  IF RefresherSave
                  THEN [tokenInfoCache EXCEPT ![t] = NewTokenEntry(info, now)]
                  ELSE tokenInfoCache
       \/ /\ upd' = [upd EXCEPT !.tasks[t].attempts = @ + 1,
                                !.tasks[t].st = IF upd.tasks[t].attempts >= upd.maxRetries
                                                THEN "failed" ELSE "backoff"]
          /\ UNCHANGED tokenInfoCache

\* The timeout of p-retry ends and the fetch is made again.
RetryTimer(t) ==
    /\ upd.pc = "page"
    /\ upd.tasks[t].st = "backoff"
    /\ upd' = [upd EXCEPT !.tasks[t].st = "fetching", !.fetchCount[t] = @ + 1]
    /\ UNCHANGED tokenInfoCache

\* Promise.allSettled resolves: every task of the page has settled.  The
\* results are read into results, failedUpdates and the pipeline, and
\* pipeline.exec() is awaited; its rejection is logged, with the writes made
\* or not.  Then the loop tests the cursor.
PipelineExec ==
    /\ upd.pc = "page"
    /\ \A t \in PageTasks(upd.tasks) : upd.tasks[t].st \in {"ok", "failed"}
    /\ LET pipeline == {t \in TokenIds : upd.tasks[t].st = "ok"}
           written(applied) ==
               [t \in TokenIds |->
                   IF applied /\ t \in pipeline
                   THEN NewTokenEntry(upd.tasks[t].info, now)
                   ELSE tokenInfoCache[t]]
       IN  \E ok \in BOOLEAN, applied \in BOOLEAN :
             /\ ok => applied
             /\ (pipeline = {}) => ~applied
             /\ tokenInfoCache' = written(applied)
             /\ upd' = [upd EXCEPT
                   !.results = [t \in TokenIds |->
                                   IF t \in pipeline THEN upd.tasks[t].info ELSE @[t]],
                   !.failedUpdates = FailedUpdatesAfter(@, upd.tasks),
                   !.log = Append(@, [keys |-> PageTasks(upd.tasks),
                                      pipeline |-> pipeline, execOk |-> ok,
                                      unsettled |-> ActiveTasks(upd.tasks)]),
                   !.tasks = [t \in TokenIds |-> NoTask],
                   !.pc = AfterPage(upd.cursor),
                   !.outcome = IF upd.cursor = "0" THEN "returned" ELSE @]

\* Midnight passes between two pages of a run.
UpdMidnight ==
    /\ upd.pc = "scan"
    /\ upd.pages > 0
    /\ upd.hour = upd.startHour
    /\ upd' = [upd EXCEPT !.hour = @ + HOURS_PER_DAY]
    /\ UNCHANGED tokenInfoCache

notTokenInfoVars == <<cacheServiceVars, rw, cal, tw, laterVars>>

RefreshNext ==
    \/ \E r \in 0..MaxRetries, c \in 1..MaxConcurrency, n \in NumChunksVals,
          h \in RefreshHours :
         UpdateAllTokenInfosCall(r, c, n, h) /\ UNCHANGED notTokenInfoVars
    \/ UpdScan /\ UNCHANGED notTokenInfoVars
    \/ \E t \in TokenIds : TaskStart(t) /\ UNCHANGED notTokenInfoVars
    \/ \E t \in TokenIds : FetchSettle(t) /\ UNCHANGED notTokenInfoVars
    \/ \E t \in TokenIds : RetryTimer(t) /\ UNCHANGED notTokenInfoVars
    \/ PipelineExec /\ UNCHANGED notTokenInfoVars
    \/ UpdMidnight /\ UNCHANGED notTokenInfoVars

\* ---- tier.ts -------------------------------------------------------------------
\* The longest ledger list and the most records of a primary snapshot.
MaxWallets == 10
MaxHbRecords == 2

PRIME == 1
CORE == 5

Tiers ==
    <<[thresholdPercent |-> 2, progressMin |-> 98, progressMax |-> 100],
      [thresholdPercent |-> 20, progressMin |-> 80, progressMax |-> 98],
      [thresholdPercent |-> 50, progressMin |-> 50, progressMax |-> 80],
      [thresholdPercent |-> 80, progressMin |-> 20, progressMax |-> 50],
      [thresholdPercent |-> 100, progressMin |-> 0, progressMax |-> 20]>>

ONE_DAY_MS == 24 * 60 * 60 * 1000

\* A TypeError raised by reading a property of undefined.
TypeError == -3

\* Math.ceil(x / 100) for an integer x >= 0 (CeilPercentFloor: Math.floor).
CeilPercentFloor(x) == x \div 100
CeilPercent(x) == (x + 99) \div 100

\* getTierThresholds(totalWallets): one {maxRank, minRank} per tier, or the
\* empty list when totalWallets <= 0.
getTierThresholds(totalWallets) ==
    IF totalWallets > 0
    THEN [i \in 1..Len(Tiers) |->
            [maxRank |-> CeilPercent(Tiers[i].thresholdPercent * totalWallets),
             minRank |-> IF i = PRIME THEN 1
                         ELSE CeilPercent(Tiers[i - 1].thresholdPercent * totalWallets) + 1]]
    ELSE <<>>

\* The largest totalWallets whose progress values are tabulated.
MaxTotal == 40
\* The significand of a double holds 53 bits.
MANTISSA_BITS == 53

\* Math.floor(((totalWallets - walletRank + 1) / totalWallets) * 100 *
\* Math.pow(10, 6)) as the double arithmetic of the language computes it, for
\* 1 <= walletRank <= totalWallets.  A double is [m, e]: m the MANTISSA_BITS
\* bits of the significand, first bit 1, and the value is m * 2^e.  The
\* quotient and each of the two products are rounded to the nearest double,
\* ties to even; the floor drops the fraction bits.  The result is in
\* millionths of a percent, the integer that the final division by 10^6 turns
\* into the returned number.
ProgressDouble(walletRank, totalWallets) ==
    LET Front(bits) == SubSeq(bits, 1, Len(bits) - 1)
        Last(bits) == bits[Len(bits)]
        ToBits[n \in Nat] == IF n = 0 THEN <<>> ELSE Append(ToBits[n \div 2], n % 2)
        ToInt[bits \in Seq({0, 1})] ==
            IF bits = <<>> THEN 0 ELSE 2 * ToInt[Front(bits)] + Last(bits)
        Inc[bits \in Seq({0, 1})] ==
            IF bits = <<>> THEN <<1>>
            ELSE IF Last(bits) = 0 THEN Append(Front(bits), 1)
            ELSE Append(Inc[Front(bits)], 0)
        RoundToDouble(bits, exponent) ==
            LET keep == SubSeq(bits, 1, MANTISSA_BITS)
                guard == IF Len(bits) > MANTISSA_BITS THEN bits[MANTISSA_BITS + 1] ELSE 0
                sticky == \E i \in (MANTISSA_BITS + 2)..Len(bits) : bits[i] = 1
                up == guard = 1 /\ (sticky \/ Last(keep) = 1)
                m == IF up THEN Inc[keep] ELSE keep
                e == exponent + (Len(bits) - MANTISSA_BITS)
            IN  IF Len(m) > MANTISSA_BITS THEN [m |-> Front(m), e |-> e + 1]
                ELSE [m |-> m, e |-> e]
        Mul[bits \in Seq({0, 1}), c \in Nat, carry \in Nat] ==
            IF bits = <<>> THEN ToBits[carry]
            ELSE LET v == Last(bits) * c + carry
                 IN  Append(Mul[Front(bits), c, v \div 2], v % 2)
        Times(x, c) == RoundToDouble(Mul[x.m, c, 0], x.e)
        Lead[rem \in Nat, p \in Int] ==
            IF rem >= totalWallets THEN <<rem, p>> ELSE Lead[2 * rem, p - 1]
        DivBits[rem \in Nat, k \in Nat] ==
            IF k = 0 THEN <<IF rem # 0 THEN 1 ELSE 0>>
            ELSE <<(2 * rem) \div totalWallets>>
                 \o DivBits[(2 * rem) % totalWallets, k - 1]
        Quotient(a) ==
            LET lead == Lead[a, 0]
            IN  RoundToDouble(<<1>> \o DivBits[lead[1] - totalWallets, MANTISSA_BITS],
                              lead[2] - (MANTISSA_BITS + 1))
        Floor(x) == IF MANTISSA_BITS + x.e <= 0 THEN 0
                    ELSE ToInt[SubSeq(x.m, 1, MANTISSA_BITS + x.e)]
    IN  Floor(Times(Times(Quotient(totalWallets - walletRank + 1), 100), 1000000))

\* ProgressDouble for every 1 <= walletRank <= totalWallets <= MaxTotal,
\* computed once: ProgressTable[totalWallets][walletRank].
ProgressTable ==
    LET Row[n \in Nat, lo \in Nat, hi \in Nat] ==
            IF lo = hi THEN lo :> ProgressDouble(lo, n)
            ELSE Row[n, lo, (lo + hi) \div 2] @@ Row[n, ((lo + hi) \div 2) + 1, hi]
        Table[lo \in Nat, hi \in Nat] ==
            IF lo = hi THEN lo :> Row[lo, 1, lo]
            ELSE Table[lo, (lo + hi) \div 2] @@ Table[((lo + hi) \div 2) + 1, hi]
    IN  Table[1, MaxTotal]

\* calculateTierProgressPercent(walletRank, totalWallets), in millionths of a
\* percent (calculateTierProgressPercentBelow: the share of the wallets
\* strictly below the rank, without the + 1).
calculateTierProgressPercentBelow(walletRank, totalWallets) ==
    IF walletRank <= 0 \/ totalWallets <= 0 THEN 0
    ELSE IF walletRank = totalWallets THEN 0
    ELSE ProgressTable[totalWallets][walletRank + 1]
calculateTierProgressPercent(walletRank, totalWallets) ==
    IF walletRank <= 0 \/ totalWallets <= 0 THEN 0
    ELSE ProgressTable[totalWallets][walletRank]

\* getWalletTier(walletRank, totalWallets): the first tier whose maxRank
\* covers the rank.  With an empty list of thresholds the first test of the
\* loop reads tierThresholds[0].maxRank and raises a TypeError.
getWalletTier(walletRank, totalWallets) ==
    LET tierThresholds == getTierThresholds(totalWallets)
        covering == {i \in 1..Len(Tiers) : walletRank <= tierThresholds[i].maxRank}
    IN  IF walletRank = 0 THEN CORE
        ELSE IF tierThresholds = <<>> THEN TypeError
        ELSE IF covering = {} THEN CORE
        ELSE CHOOSE i \in covering : \A k \in covering : i <= k

\* The 1-based rank of the wallet at an index of the ledger list
\* (WalletRankZeroBased: the index itself).
WalletRankZeroBased(index) == index
WalletRank(index) == index + 1

\* The snapshot the fallback builds from the ledger list: the reduce writes
\* acc[wallet.address] for each wallet in list order.
LedgerSnapshot(wallets, snapshotTimestamp) ==
    LET totalWallets == Len(wallets)
        LastIndex(a) == CHOOSE j \in 1..totalWallets :
                           /\ wallets[j].address = a
                           /\ \A k \in (j + 1)..totalWallets : wallets[k].address # a
        walletData(index) ==
            [balance |-> wallets[index + 1].balance,
             rank |-> WalletRank(index),
             tier |-> getWalletTier(WalletRank(index), totalWallets),
             progress |-> calculateTierProgressPercent(WalletRank(index), totalWallets),
             snapshotTimestamp |-> snapshotTimestamp,
             totalHolders |-> totalWallets]
    IN  [walletsTierInfo |->
            [a \in {wallets[j].address : j \in 1..totalWallets} |->
                walletData(LastIndex(a) - 1)],
         snapshotTimestamp |-> snapshotTimestamp,
         totalWallets |-> totalWallets]

\* What the Get-Wallets dryrun can answer: the ledger's wallets, listed by
\* descending balance, with the time of the snapshot.  A wallet has one entry
\* in the ledger; the addresses are numbered, in either order.  The ledger
\* took its snapshot a millisecond ago, or a millisecond more than a day ago.
LedgerAnswers(t) ==
    {[wallets |-> w, snapshotTimestamp |-> ts] :
        ts \in {t - 1, t - ONE_DAY_MS - 1},
        w \in UNION {{[j \in 1..n |-> [address |-> j, balance |-> n - j + 1]],
                      [j \in 1..n |-> [address |-> n + 1 - j, balance |-> n - j + 1]]}
                     : n \in 0..MaxWallets}}

\* What the primary endpoint can answer: response.ok or not, and the entries
\* of the JSON object in order, each with an address that has the format of
\* an Arweave address or not.
HbAnswers(t) ==
    LET HbRecords ==
            [valid : BOOLEAN,
             snapshotTimestamp : {0, t - ONE_DAY_MS - 1, t - ONE_DAY_MS,
                                  t - ONE_DAY_MS + 500, t - 1},
             totalHolders : 0..MaxHbRecords]
    IN  {[ok |-> FALSE, data |-> <<>>]}
            \cup {[ok |-> TRUE, data |-> d] :
                    d \in UNION {[1..l -> HbRecords] : l \in 0..MaxHbRecords}}

\* actualTotalWallets !== totalWallets is false (TotalsMatchAlways: the test
\* is left out).
TotalsMatchAlways(actualTotalWallets, totalWallets) == TRUE
TotalsMatch(actualTotalWallets, totalWallets) == actualTotalWallets = totalWallets

\* timestampDiff > ONE_DAY_MS (SnapshotTooOldNever: no snapshot is too old).
SnapshotTooOldNever(timestampDiff) == FALSE
SnapshotTooOld(timestampDiff) == timestampDiff > ONE_DAY_MS

\* The checks of the try block: "accepted", or why the snapshot is thrown
\* away.
PrimaryVerdict(answer, t) ==
    LET data == answer.data
        validIdx == {i \in 1..Len(data) : data[i].valid}
        first == CHOOSE i \in validIdx : \A k \in validIdx : i <= k
    IN  IF ~answer.ok THEN "notOk"
        ELSE IF validIdx = {} THEN "noValidWallet"
        ELSE IF data[first].snapshotTimestamp = 0 \/ data[first].totalHolders = 0
             THEN "invalidResponse"
        ELSE IF ~TotalsMatch(Cardinality(validIdx), data[first].totalHolders)
             THEN "totalMismatch"
        ELSE IF SnapshotTooOld(t - data[first].snapshotTimestamp) THEN "tooOld"
        ELSE "accepted"

\* The snapshot the try block returns.
PrimarySnapshot(answer) ==
    LET data == answer.data
        validIdx == {i \in 1..Len(data) : data[i].valid}
        first == CHOOSE i \in validIdx : \A k \in validIdx : i <= k
    IN  [walletsTierInfo |->
            [a \in validIdx |->
                [balance |-> 0, rank |-> a, tier |-> CORE, progress |-> 0,
                 snapshotTimestamp |-> data[a].snapshotTimestamp,
                 totalHolders |-> data[a].totalHolders]],
         snapshotTimestamp |-> data[first].snapshotTimestamp,
         totalWallets |-> data[first].totalHolders]

\* What the call saw of the primary answer: response.ok, the number of
\* entries kept, and the first of them.
PrimaryFacts(answer) ==
    LET validIdx == {i \in 1..Len(answer.data) : answer.data[i].valid}
    IN  [ok |-> answer.ok,
         valid |-> Cardinality(validIdx),
         first |-> IF validIdx = {} THEN <<>>
                   ELSE <<answer.data[CHOOSE i \in validIdx : \A k \in validIdx : i <= k]>>]

TwIdle ==
    [pc |-> "idle", seen |-> [ok |-> FALSE, valid |-> 0, first |-> <<>>],
     checkedAt |-> 0,
     primary |-> "none", path |-> "none", outcome |-> "none",
     result |-> [walletsTierInfo |-> <<>>, snapshotTimestamp |-> 0, totalWallets |-> 0]]

\* getWalletsTierInfoFromAo() is entered and the primary endpoint is fetched.
GetWalletsTierInfoFromAoCall ==
    /\ tw.pc = "idle"
    /\ tw' = [tw EXCEPT !.pc = "primary"]
    /\ UNCHANGED rw

\* The try block: the answer of the primary endpoint is checked and returned,
\* or the catch block starts retryWithDelay over the Get-Wallets dryrun with
\* the default maxAttempts and delay.
FetchPrimary ==
    /\ tw.pc = "primary"
    /\ \E answer \in HbAnswers(now) :
         LET verdict == PrimaryVerdict(answer, now)
         IN  IF verdict = "accepted"
             THEN /\ tw' = [tw EXCEPT !.pc = "done", !.seen = PrimaryFacts(answer),
                                      !.checkedAt = now, !.primary = verdict,
                                      !.path = "primary", !.outcome = "returned",
                                      !.result = PrimarySnapshot(answer)]
                  /\ UNCHANGED rw
             ELSE /\ tw' = [tw EXCEPT !.pc = "fallback", !.seen = PrimaryFacts(answer),
                                      !.checkedAt = now, !.primary = verdict,
                                      !.path = "fallback"]
                  /\ rw' = [RwIdle EXCEPT !.pc = "loop",
                                          !.maxAttempts = DEFAULT_MAX_ATTEMPTS,
                                          !.getDelay = DefaultGetDelay]

\* retryWithDelay has settled: its rejection is the rejection of the call;
\* its value is turned into the snapshot.
FallbackFinish ==
    /\ tw.pc = "fallback"
    /\ rw.pc = "done"
    /\ IF rw.outcome = "threw"
       THEN tw' = [tw EXCEPT !.pc = "done", !.outcome = "threw"]
       ELSE tw' = [tw EXCEPT !.pc = "done", !.outcome = "returned",
                             !.result = LedgerSnapshot(rw.value.wallets,
                                                       rw.value.snapshotTimestamp)]
    /\ UNCHANGED rw

\* The instance the callback of the fallback sends its dryrun to on an
\* attempt (LedgerInstanceOurFirst: the two instances exchanged).
LedgerInstanceOurFirst(attempt) ==
    IF attempt % 2 = 0 THEN "ourAoInstance" ELSE "customAoInstance"
LedgerInstance(attempt) ==
    IF attempt % 2 = 0 THEN "customAoInstance" ELSE "ourAoInstance"

\* The instances the Get-Wallets dryruns of the call went to, in order: one
\* for each invocation of the callback by retryWithDelay.
InstancesQueried ==
    LET invocations == SelectSeq(rw.events, LAMBDA e : e[1] = "fn")
    IN  [k \in 1..Len(invocations) |-> LedgerInstance(invocations[k][2])]

notTierVars == <<cacheServiceVars, tokenInfoVars, cal, laterVars>>

TierNext ==
    \/ GetWalletsTierInfoFromAoCall /\ UNCHANGED notTierVars
    \/ FetchPrimary /\ UNCHANGED notTierVars
    \/ RetryInvoke(LedgerAnswers(now)) /\ UNCHANGED <<notTierVars, tw>>
    \/ RetrySleep /\ UNCHANGED <<notTierVars, tw>>
    \/ FallbackFinish /\ UNCHANGED notTierVars


\* ---- tier.ts: the tier and the progress of one rank ----------------------------
PgIdle == [pc |-> "idle", walletRank |-> 0, totalWallets |-> 0, tier |-> 0, progress |-> 0]

\* The ranks a caller can pass with a total: none above the total.
RanksOf(totalWallets) == -1..(IF totalWallets < 1 THEN 1 ELSE totalWallets)

\* getWalletTier(walletRank, totalWallets), as the reduce of the fallback
\* calls it for a wallet.
GetWalletTierCall(walletRank, totalWallets) ==
    /\ pg.pc = "idle"
    /\ pg' = [pc |-> "tier", walletRank |-> walletRank, totalWallets |-> totalWallets,
              tier |-> getWalletTier(walletRank, totalWallets), progress |-> 0]

\* calculateTierProgressPercent(walletRank, totalWallets) for the same wallet.
CalculateTierProgressPercentCall ==
    /\ pg.pc = "tier"
    /\ pg' = [pg EXCEPT !.pc = "done",
                        !.progress = calculateTierProgressPercent(pg.walletRank,
                                                                  pg.totalWallets)]

notPgVars == <<cacheServiceVars, rw, tokenInfoVars, cal, tw, tierCache, wt, gt, kv, rh, us, ub, tk>>

ProgressNext ==
    \/ \E totalWallets \in -1..MaxTotal :
         \E walletRank \in RanksOf(totalWallets) :
            GetWalletTierCall(walletRank, totalWallets) /\ UNCHANGED notPgVars
    \/ CalculateTierProgressPercentCall /\ UNCHANGED notPgVars


\* ---- tier.ts: getWalletsTierInfo ------------------------------------------------
TIER_INFO_KEY == "wallets-tier-info"

\* rank: "" of the record of an address that is not in the snapshot.
EMPTY_RANK == -4

\* The address lists a caller passes: addresses in the format of an Arweave
\* address, as the route filters them.  Address 0 is in no snapshot.
RequestLists == {<<1, 0, 1>>, <<2>>}

\* The record of an address that is not in the snapshot
\* (DefaultRecordUnset: with the initial 0 of the two let variables).
DefaultRecordUnset(snapshotTimestamp, totalWallets) ==
    [balance |-> 0, rank |-> EMPTY_RANK, tier |-> CORE, progress |-> 0,
     snapshotTimestamp |-> 0, totalHolders |-> 0]
DefaultRecord(snapshotTimestamp, totalWallets) ==
    [balance |-> 0, rank |-> EMPTY_RANK, tier |-> CORE, progress |-> 0,
     snapshotTimestamp |-> snapshotTimestamp, totalHolders |-> totalWallets]

\* addresses.reduce(...): acc[address] for each address of the list.
ResultOf(addresses, snapshot) ==
    [a \in {addresses[i] : i \in 1..Len(addresses)} |->
        IF a \in DOMAIN snapshot.walletsTierInfo
        THEN snapshot.walletsTierInfo[a]
        ELSE DefaultRecord(snapshot.snapshotTimestamp, snapshot.totalWallets)]

\* Math.floor((snapshotTimestamp + 24 * 60 * 60 * 1000 - Date.now()) / 1000)
TierCacheAge(snapshotTimestamp, t) == (snapshotTimestamp + ONE_DAY_MS - t) \div MS_PER_SECOND

\* The key as redis.set(key, snapshot, {ex: cacheAge}) leaves it at time t.
TierEntry(snapshot, cacheAge, t) ==
    [value |-> snapshot, expiresAt |-> t + cacheAge * MS_PER_SECOND]

\* What an earlier call can have left under the key at time t: nothing, a
\* snapshot of the ledger written five minutes ago, or one written a day ago.
StoredTierEntries(t) ==
    LET wallets == [j \in 1..2 |-> [address |-> j, balance |-> 3 - j]]
        Written(at) == TierEntry(LedgerSnapshot(wallets, at - 1),
                                 TierCacheAge(at - 1, at), at)
    IN  {NoEntry, Written(t - FreshMs), Written(t - ONE_DAY_MS)}

WtIdle ==
    [pc |-> "idle", addresses |-> <<>>, hit |-> FALSE, cacheAge |-> 0,
     getFailed |-> FALSE, setFailed |-> FALSE, stored |-> FALSE,
     snapshot |-> TwIdle.result, outcome |-> "none", result |-> <<>>]

\* getWalletsTierInfo(addresses) is entered and the key is read.  A failed
\* read rejects the call; a hit goes on to the reduce and returns; a miss
\* calls getWalletsTierInfoFromAo.
GetWalletsTierInfoCall(addresses) ==
    /\ wt.pc = "idle"
    /\ \E ok \in BOOLEAN :
         LET cached == RedisGet(tierCache, TIER_INFO_KEY, now)
         IN  IF ~ok
             THEN wt' = [wt EXCEPT !.pc = "done", !.addresses = addresses,
                                   !.getFailed = TRUE, !.outcome = "threw"]
             ELSE IF cached # NoEntry
             THEN wt' = [wt EXCEPT !.pc = "done", !.addresses = addresses,
                                   !.hit = TRUE, !.snapshot = cached.value,
                                   !.outcome = "returned",
                                   !.result = ResultOf(addresses, cached.value)]
             ELSE wt' = [wt EXCEPT !.pc = "fetch", !.addresses = addresses]
    /\ UNCHANGED <<tierCache, tw, rw>>

\* getWalletsTierInfoFromAo has settled.  Its rejection is the rejection of
\* the call.  Otherwise the snapshot is written with the time to live
\* cacheAge: the store refuses a time to live that is not positive, and it
\* can fail; either rejects the call.  After the write the reduce builds the
\* result.
CacheSnapshot ==
    /\ wt.pc = "fetch"
    /\ tw.pc = "done"
    /\ IF tw.outcome = "threw"
       THEN /\ wt' = [wt EXCEPT !.pc = "done", !.outcome = "threw"]
            /\ UNCHANGED tierCache
       ELSE LET cacheAge == TierCacheAge(tw.result.snapshotTimestamp, now)
            IN  \E ok \in BOOLEAN :
                  IF cacheAge <= 0 \/ ~ok
                  THEN /\ wt' = [wt EXCEPT !.pc = "done", !.snapshot = tw.result,
                                           !.cacheAge = cacheAge,
                                           !.setFailed = (cacheAge > 0),
                                           !.outcome = "threw"]
                       /\ UNCHANGED tierCache
                  ELSE /\ wt' = [wt EXCEPT !.pc = "done", !.snapshot = tw.result,
                                           !.cacheAge = cacheAge, !.stored = TRUE,
                                           !.outcome = "returned",
                                           !.result = ResultOf(wt.addresses, tw.result)]
                       /\ tierCache' = [tierCache EXCEPT ![TIER_INFO_KEY] =
                                            TierEntry(tw.result, cacheAge, now)]
    /\ UNCHANGED <<tw, rw>>

notTierInfoVars == <<cacheServiceVars, tokenInfoVars, cal, pg, gt, kv, rh, us, ub, tk>>

TierInfoNext ==
    \/ \E addresses \in RequestLists :
         GetWalletsTierInfoCall(addresses) /\ UNCHANGED notTierInfoVars
    \/ wt.pc = "fetch" /\ GetWalletsTierInfoFromAoCall
         /\ UNCHANGED <<notTierInfoVars, tierCache, wt>>
    \/ wt.pc = "fetch" /\ FetchPrimary /\ UNCHANGED <<notTierInfoVars, tierCache, wt>>
    \/ wt.pc = "fetch" /\ RetryInvoke(LedgerAnswers(now))
         /\ UNCHANGED <<notTierInfoVars, tierCache, wt, tw>>
    \/ wt.pc = "fetch" /\ RetrySleep /\ UNCHANGED <<notTierInfoVars, tierCache, wt, tw>>
    \/ wt.pc = "fetch" /\ FallbackFinish /\ UNCHANGED <<notTierInfoVars, tierCache, wt>>
    \/ CacheSnapshot /\ UNCHANGED notTierInfoVars


\* ---- getTokenInfo and getTokenInfoFromAo ----------------------------------------
\* The two versions of the service: part_007 and lib/tokenInfoService.ts.
Versions == {"part_007", "tokenInfoService"}

\* The test in front of the redis.set of getTokenInfoFromAo: if (save) in
\* part_007, if (!save) in lib/tokenInfoService.ts.
SaveTest(save) == save
SaveTestService(save) == ~save

\* What that redis.set leaves under the key: without a time to live in
\* part_007, with ex: CACHE_EXPIRY in lib/tokenInfoService.ts.
WrittenTokenEntry(version, info, t) ==
    IF version = "part_007" THEN NewTokenEntry(info, t)
    ELSE [tokenInfo |-> info, timestamp |-> t, expiresAt |-> t + TtlMs]

\* redis.get(cacheKey) at time t.
TokenInfoGet(cache, tokenId, t) ==
    IF "expiresAt" \in DOMAIN cache[tokenId] /\ t >= cache[tokenId].expiresAt
    THEN NoEntry
    ELSE cache[tokenId]

GtIdle ==
    [pc |-> "idle", version |-> "none", caller |-> "none", tokenId |-> <<>>,
     save |-> FALSE, cacheAtCall |-> <<>>, fetched |-> FALSE, tokenInfo |-> 0,
     sets |-> 0, outcome |-> "none", response |-> <<>>]

\* getTokenInfo(tokenId, save): the key is read; a hit is returned; a miss
\* or a failed read goes on to getTokenInfoFromAo(tokenId, save).
GetTokenInfoCall(version, tokenId, save) ==
    /\ gt.pc = "idle"
    /\ gt.version \in {"none", version}
    /\ \E ok \in BOOLEAN :
         LET cached == TokenInfoGet(tokenInfoCache, tokenId, now)
             call == [GtIdle EXCEPT !.version = version, !.caller = "getTokenInfo",
                                    !.tokenId = tokenId, !.save = save,
                                    !.cacheAtCall = tokenInfoCache]
         IN  IF ok /\ cached # NoEntry
             THEN gt' = [call EXCEPT !.pc = "done", !.outcome = "returned",
                                     !.response = [tokenInfo |-> cached.tokenInfo,
                                                   fresh |-> TRUE,
                                                   cachedAt |-> ToISOString(cached.timestamp),
                                                   cacheAge |-> CacheAge(now, cached.timestamp)]]
             ELSE gt' = [call EXCEPT !.pc = "ao"]
    /\ UNCHANGED tokenInfoCache

\* getTokenInfoFromAo(tokenId, save) called by itself, as the refresher does.
GetTokenInfoFromAoCall(version, tokenId, save) ==
    /\ gt.pc = "idle"
    /\ gt.version \in {"none", version}
    /\ gt' = [GtIdle EXCEPT !.pc = "ao", !.version = version,
                            !.caller = "getTokenInfoFromAo", !.tokenId = tokenId,
                            !.save = save, !.cacheAtCall = tokenInfoCache]
    /\ UNCHANGED tokenInfoCache

\* The Info dryrun settles.  A failed dryrun or an answer without token info
\* rejects the call; otherwise the test on save decides whether redis.set is
\* called, and a failed redis.set rejects the call too.
TokenInfoDryrun ==
    /\ gt.pc = "ao"
    /\ \E ok \in BOOLEAN, info \in InfoVals, setOk \in BOOLEAN :
         LET writes == IF gt.version = "part_007" THEN SaveTest(gt.save)
                       ELSE SaveTestService(gt.save)
         IN  IF ~ok
             THEN /\ gt' = [gt EXCEPT !.pc = "done", !.outcome = "threw"]
                  /\ UNCHANGED tokenInfoCache
             ELSE IF ~writes
             THEN /\ gt' = [gt EXCEPT !.pc = "done", !.fetched = TRUE,
                                      !.tokenInfo = info, !.outcome = "returned",
                                      !.response = [tokenInfo |-> info, fresh |-> TRUE,
                                                    cachedAt |-> ToISOString(now),
                                                    cacheAge |-> 0]]
                  /\ UNCHANGED tokenInfoCache
             ELSE IF ~setOk
             THEN /\ gt' = [gt EXCEPT !.pc = "done", !.fetched = TRUE,
                                      !.tokenInfo = info, !.sets = 1,
                                      !.outcome = "threw"]
                  /\ UNCHANGED tokenInfoCache
             ELSE /\ gt' = [gt EXCEPT !.pc = "done", !.fetched = TRUE,
                                      !.tokenInfo = info, !.sets = 1,
                                      !.outcome = "returned",
                                      !.response = [tokenInfo |-> info, fresh |-> TRUE,
                                                    cachedAt |-> ToISOString(now),
                                                    cacheAge |-> 0]]
                  /\ tokenInfoCache' = [tokenInfoCache EXCEPT ![gt.tokenId] =
                                            WrittenTokenEntry(gt.version, info, now)]

\* The call has settled; the next one can start.
TokenInfoSettled ==
    /\ gt.pc = "done"
    /\ gt' = [GtIdle EXCEPT !.version = gt.version]
    /\ UNCHANGED tokenInfoCache

notGtVars == <<cacheServiceVars, rw, upd, cal, tw, pg, tierCache, wt, kv, rh, us, ub, tk>>

TokenInfoNext ==
    \/ \E version \in Versions, tokenId \in TokenIds, save \in BOOLEAN :
         GetTokenInfoCall(version, tokenId, save) /\ UNCHANGED notGtVars
    \/ \E version \in Versions, tokenId \in TokenIds, save \in BOOLEAN :
         GetTokenInfoFromAoCall(version, tokenId, save) /\ UNCHANGED notGtVars
    \/ TokenInfoDryrun /\ UNCHANGED notGtVars
    \/ TokenInfoSettled /\ UNCHANGED notGtVars


\* ---- redisHelper: lib/redis.ts and part_006 --------------------------------------
HelperKeys == {"k"}

\* JavaScript values a caller stores: the strings "abc" and "1", the number
\* 1, the object { price: 1, timestamp: 5 } of a resolver and the string that
\* JSON.stringify makes of that object.
JsNull == <<"null">>
SyntaxError == <<"SyntaxError">>
EntryObject == <<"object", "price: 1, timestamp: 5">>
EntryText == "{\"price\":1,\"timestamp\":5}"
JsValues ==
    {<<"string", "abc">>, <<"string", "1">>, <<"number", "1">>,
     EntryObject, <<"string", EntryText>>}

\* JSON.stringify(value): the text of the value.
JSONStringify(value) ==
    CASE value = <<"string", "abc">> -> "\"abc\""
      [] value = <<"string", "1">> -> "\"1\""
      [] value = <<"number", "1">> -> "1"
      [] value = EntryObject -> EntryText
      [] value = <<"string", EntryText>> -> "\"{\\\"price\\\":1,\\\"timestamp\\\":5}\""

\* JSON.parse(text): the value, or a SyntaxError.
JSONParse(text) ==
    CASE text = "\"abc\"" -> <<"string", "abc">>
      [] text = "\"1\"" -> <<"string", "1">>
      [] text = "1" -> <<"number", "1">>
      [] text = EntryText -> EntryObject
      [] text = "\"{\\\"price\\\":1,\\\"timestamp\\\":5}\"" -> <<"string", EntryText>>
      [] OTHER -> SyntaxError

\* options?.ex of a set: no option, or a number of seconds.
ExOptions == {Undefined, -1, 0, 1}

\* getRedis(): the client made before, or the one made now: null without
\* REDIS_URL.
getRedis(redisClient, url) ==
    IF redisClient # "undefined" THEN redisClient
    ELSE IF url THEN "client" ELSE "null"

\* GET key at time t: the entry, or none once its time to live has elapsed.
IoredisGet(store, key, t) ==
    IF "expiresAt" \in DOMAIN store[key] /\ t >= store[key].expiresAt THEN NoEntry
    ELSE store[key]

\* The key after SETEX key ex text (ex a number that is not 0) or SET key text.
IoredisSet(text, ex, t) ==
    IF ex # Undefined /\ ex # 0
    THEN [text |-> text, expiresAt |-> t + ex * MS_PER_SECOND]
    ELSE [text |-> text]

\* lastSet: for each key, the value of the last set that wrote it.
RhIdle ==
    [version |-> "none", redisClient |-> "undefined", op |-> "none", key |-> "",
     commandFailed |-> FALSE, outcome |-> "none", result |-> JsNull,
     storeBefore |-> <<>>, lastSet |-> [k \in HelperKeys |-> JsNull]]

\* redisHelper.get(key) of lib/redis.ts: null without a client, null when the
\* command fails, when the key is empty or when its text does not parse.
RedisHelperGet(key) ==
    /\ rh.version \in {"none", "redis.ts"}
    /\ \E url \in BOOLEAN, ok \in BOOLEAN :
         LET client == getRedis(rh.redisClient, url)
             entry == IoredisGet(kv, key, now)
             call == [RhIdle EXCEPT !.version = "redis.ts", !.redisClient = client,
                                    !.op = "get", !.key = key, !.storeBefore = kv,
                                    !.outcome = "returned", !.lastSet = rh.lastSet]
         IN  rh' = IF client = "null" THEN call
                   ELSE IF ~ok THEN [call EXCEPT !.commandFailed = TRUE]
                   ELSE IF entry = NoEntry THEN call
                   ELSE IF entry.text = "" THEN call
                   ELSE IF JSONParse(entry.text) = SyntaxError THEN call
                   ELSE [call EXCEPT !.result = JSONParse(entry.text)]
    /\ UNCHANGED kv

\* redisHelper.set(key, value, options) of lib/redis.ts: nothing without a
\* client; the text of the value is written with SETEX when options.ex is
\* truthy and with SET otherwise, and a rejected command is swallowed.  The
\* store rejects a SETEX whose time is not positive.
RedisHelperSet(key, value, ex) ==
    /\ rh.version \in {"none", "redis.ts"}
    /\ \E url \in BOOLEAN, ok \in BOOLEAN :
         LET client == getRedis(rh.redisClient, url)
             call == [RhIdle EXCEPT !.version = "redis.ts", !.redisClient = client,
                                    !.op = "set", !.key = key, !.storeBefore = kv,
                                    !.outcome = "returned", !.lastSet = rh.lastSet]
             rejected == ~ok \/ (ex # Undefined /\ ex < 0)
         IN  IF client = "null"
             THEN rh' = call /\ UNCHANGED kv
             ELSE IF rejected
             THEN rh' = [call EXCEPT !.commandFailed = TRUE] /\ UNCHANGED kv
             ELSE /\ rh' = [call EXCEPT !.lastSet[key] = value]
                  /\ kv' = [kv EXCEPT ![key] = IoredisSet(JSONStringify(value), ex, now)]

\* redisHelper.get(key) of part_006: the command is awaited outside the try; a
\* text that does not parse is returned as it is.
GlobalHelperGet(key) ==
    /\ rh.version \in {"none", "part_006"}
    /\ \E ok \in BOOLEAN :
         LET entry == IoredisGet(kv, key, now)
             call == [RhIdle EXCEPT !.version = "part_006", !.redisClient = "client",
                                    !.op = "get", !.key = key, !.storeBefore = kv,
                                    !.outcome = "returned", !.lastSet = rh.lastSet]
         IN  rh' = IF ~ok THEN [call EXCEPT !.commandFailed = TRUE, !.outcome = "threw"]
                   ELSE IF entry = NoEntry THEN call
                   ELSE IF entry.text = "" THEN call
                   ELSE IF JSONParse(entry.text) = SyntaxError
                   THEN [call EXCEPT !.result = <<"string", entry.text>>]
                   ELSE [call EXCEPT !.result = JSONParse(entry.text)]
    /\ UNCHANGED kv

\* redisHelper.set(key, value, options) of part_006: a string is written as
\* it is, any other value as its JSON text; no command is inside a try.
GlobalHelperSet(key, value, ex) ==
    /\ rh.version \in {"none", "part_006"}
    /\ \E ok \in BOOLEAN :
         LET call == [RhIdle EXCEPT !.version = "part_006", !.redisClient = "client",
                                    !.op = "set", !.key = key, !.storeBefore = kv,
                                    !.outcome = "returned", !.lastSet = rh.lastSet]
             stringValue == IF value[1] = "string" THEN value[2]
                            ELSE JSONStringify(value)
             rejected == ~ok \/ (ex # Undefined /\ ex < 0)
         IN  IF rejected
             THEN /\ rh' = [call EXCEPT !.commandFailed = TRUE, !.outcome = "threw"]
                  /\ UNCHANGED kv
             ELSE /\ rh' = [call EXCEPT !.lastSet[key] = value]
                  /\ kv' = [kv EXCEPT ![key] = IoredisSet(stringValue, ex, now)]

notRhVars == <<cacheServiceVars, rw, tokenInfoVars, cal, tw, pg, tierCache, wt, gt, us, ub, tk>>

HelperNext ==
    \/ \E key \in HelperKeys : RedisHelperGet(key) /\ UNCHANGED notRhVars
    \/ \E key \in HelperKeys, value \in JsValues, ex \in ExOptions :
         RedisHelperSet(key, value, ex) /\ UNCHANGED notRhVars
    \/ \E key \in HelperKeys : GlobalHelperGet(key) /\ UNCHANGED notRhVars
    \/ \E key \in HelperKeys, value \in JsValues, ex \in ExOptions :
         GlobalHelperSet(key, value, ex) /\ UNCHANGED notRhVars
    \/ Tick /\ UNCHANGED serviceVars


\* ---- updateAllTokenInfos (lib/tokenInfoService.ts) -------------------------------
\* The most scans of a run.
MaxScans == 4

\* The keys the scans return: tokenInfo:0 and tokenInfo:a.
ScanKeys == {<<48>>, <<97>>}

\* A cursor of the store is the decimal text of an unsigned 64-bit integer.
\* An integer below 2^57 is written <<hi, lo>> for hi * 2^27 + lo: the
\* cursors 0 and 1, and 2^53 + 1 = 9007199254740993.
CursorZero == <<0, 0>>
CursorOne == <<0, 1>>
CursorLarge == <<2^26, 1>>

\* The next cursors of the pages of a full iteration of the keyspace, in
\* order; the last page has cursor 0.
ScanChains ==
    {<<CursorZero>>, <<CursorOne, CursorZero>>, <<CursorLarge, CursorZero>>,
     <<CursorOne, CursorLarge, CursorZero>>}

\* parseInt(nextCursor, 10): the double nearest to the integer, ties to the
\* even mantissa of 53 bits (ParseIntExact: the integer itself).
ParseIntExact(nextCursor) == nextCursor
ParseInt(nextCursor) ==
    LET hi == nextCursor[1]
        lo == nextCursor[2]
        BitLen(n) == CHOOSE b \in 0..30 : n < 2^b /\ (b = 0 \/ n >= 2^(b - 1))
        e == IF BitLen(hi) > 26 THEN BitLen(hi) - 26 ELSE 0
        step == 2^e
        q == lo \div step
        up == \/ 2 * (lo % step) > step
              \/ 2 * (lo % step) = step /\ q % 2 = 1
        rounded == (IF up THEN q + 1 ELSE q) * step
    IN  IF rounded = 2^27 THEN <<hi + 1, 0>> ELSE <<hi, rounded>>

UsIdle ==
    [pc |-> "idle", maxRetries |-> 0, chain |-> <<>>, cursor |-> CursorZero,
     keys |-> {}, scans |-> <<>>, batches |-> <<>>, attempt |-> 0,
     results |-> [t \in ScanKeys |-> Undefined], failedUpdates |-> {},
     outcome |-> "none"]

\* updateAllTokenInfos(maxRetries, retryDelay) is entered: cursor = 0.  The
\* store holds the keys in the pages of `chain`.
ServiceUpdateCall(r, chain) ==
    /\ us.pc = "idle"
    /\ us' = [us EXCEPT !.pc = "scan", !.maxRetries = r, !.chain = chain]
    /\ UNCHANGED tokenInfoCache

\* redis.scan(cursor, ...) and the lines up to the test of the batch: the
\* scan rejects, which rejects the run, or it returns the page the cursor
\* stands for and the cursor of the next one; a cursor the store never gave
\* out has an undefined result: some page.  An empty batch ends the loop when
\* the cursor is 0 and goes back to the scan otherwise.
ServiceScan ==
    /\ us.pc = "scan"
    /\ Len(us.scans) < MaxScans
    /\ \/ us' = [us EXCEPT !.pc = "done", !.outcome = "threw"]
       \/ LET known == {i \in 1..Len(us.chain) :
                           IF i = 1 THEN us.cursor = CursorZero
                           ELSE us.cursor = us.chain[i - 1]}
              pages == IF known = {} THEN 1..Len(us.chain) ELSE known
          IN  \E page \in pages, keys \in SUBSET ScanKeys :
                LET nextCursor == us.chain[page]
                    cursor == ParseInt(nextCursor)
                IN  us' = [us EXCEPT
                        !.scans = Append(@, [sent |-> us.cursor, page |-> page,
                                             nextCursor |-> nextCursor]),
                        !.cursor = cursor,
                        !.keys = keys,
                        !.pc = IF keys # {} THEN "batch"
                               ELSE IF cursor = CursorZero THEN "retry" ELSE "scan"]
    /\ UNCHANGED tokenInfoCache

\* The batch: getTokenInfoFromAo(tokenId, false) for every key, which writes
\* the entry of a fetched token because its test is if (!save); the results
\* are read into results, the failures and the pipeline, and pipeline.exec()
\* is awaited, its rejection logged.  Then the loop ends when the cursor is 0.
ServiceBatch ==
    /\ us.pc = "batch"
    /\ \E fetched \in SUBSET us.keys, info \in InfoVals, applied \in BOOLEAN :
         /\ fetched = {} => ~applied
         /\ tokenInfoCache' =
               [t \in TokenIds |->
                  IF t \in fetched /\ (applied \/ SaveTestService(FALSE))
                  THEN WrittenTokenEntry("tokenInfoService", info, now)
                  ELSE tokenInfoCache[t]]
         /\ us' = [us EXCEPT
               !.results = [t \in ScanKeys |-> IF t \in fetched THEN info ELSE @[t]],
               !.failedUpdates = @ \cup (us.keys \ fetched),
               !.batches = Append(@, us.scans[Len(us.scans)].page),
               !.keys = {},
               !.pc = IF us.cursor = CursorZero THEN "retry" ELSE "scan"]

\* One turn of the retry loop: after the delay every failed token is fetched
\* again with getTokenInfoFromAo(tokenId), whose save is true and which
\* writes nothing; the fetched ones go through a pipeline.
ServiceRetry ==
    /\ us.pc = "retry"
    /\ us.failedUpdates # {}
    /\ us.attempt < us.maxRetries
    /\ \E fetched \in SUBSET us.failedUpdates, info \in InfoVals, applied \in BOOLEAN :
         /\ fetched = {} => ~applied
         /\ tokenInfoCache' =
               [t \in TokenIds |->
                  IF t \in fetched /\ (applied \/ SaveTestService(TRUE))
                  THEN WrittenTokenEntry("tokenInfoService", info, now)
                  ELSE tokenInfoCache[t]]
         /\ us' = [us EXCEPT
               !.results = [t \in ScanKeys |-> IF t \in fetched THEN info ELSE @[t]],
               !.failedUpdates = @ \ fetched,
               !.attempt = @ + 1]

\* No token is left to retry, or no attempt: return results.
ServiceReturn ==
    /\ us.pc = "retry"
    /\ us.failedUpdates = {} \/ us.attempt >= us.maxRetries
    /\ us' = [us EXCEPT !.pc = "done", !.outcome = "returned"]
    /\ UNCHANGED tokenInfoCache

notUsVars == <<cacheServiceVars, rw, upd, cal, tw, pg, tierCache, wt, gt, kv, rh, ub, tk>>

ServiceRefreshNext ==
    \/ \E r \in 0..MaxRetries, chain \in ScanChains :
         ServiceUpdateCall(r, chain) /\ UNCHANGED notUsVars
    \/ ServiceScan /\ UNCHANGED notUsVars
    \/ ServiceBatch /\ UNCHANGED notUsVars
    \/ ServiceRetry /\ UNCHANGED notUsVars
    \/ ServiceReturn /\ UNCHANGED notUsVars


\* ---- getTokenInfo during updateAllTokenInfos (part_007) -------------------------
\* A run of the refresher without retries and with the default number of
\* chunks, and getTokenInfo calls that miss the cache or fail to read it while
\* the run is under way.
RaceNext ==
    \/ \E h \in RefreshHours :
         UpdateAllTokenInfosCall(0, MaxConcurrency, DEFAULT_NUM_CHUNKS, h)
            /\ UNCHANGED notTokenInfoVars
    \/ UpdScan /\ UNCHANGED notTokenInfoVars
    \/ \E t \in TokenIds : TaskStart(t) /\ UNCHANGED notTokenInfoVars
    \/ \E t \in TokenIds : FetchSettle(t) /\ UNCHANGED notTokenInfoVars
    \/ PipelineExec /\ UNCHANGED notTokenInfoVars
    \/ \E tokenId \in TokenIds :
         GetTokenInfoCall("part_007", tokenId, TRUE) /\ UNCHANGED notGtVars
    \/ TokenInfoDryrun /\ UNCHANGED notGtVars

\* ---- updateAllBotegaPrices (part_009) ----------------------------------------
\* TRACKED_BOTEGA_TOKENS: the tokens of the model.
UbIdle ==
    [pc |-> "idle", maxRetries |-> 0, attempt |-> 0, calls |-> 0,
     outcome |-> "none", returnedAt |-> 0, prices |-> EmptyMap]

\* priceData.prices[tokenId] === null (IsMissingOrAbsent: a token without a
\* key in prices counts as missing too).
IsMissingOrAbsent(price) == price \in {Null, Undefined}
IsMissing(price) == price = Null

\* updateAllBotegaPrices(maxRetries, retryDelay) is entered: attempt = 0.
UpdateAllBotegaPricesCall(r) ==
    /\ ub.pc = "idle"
    /\ bg.pc = "idle"
    /\ ub' = [ub EXCEPT !.pc = "loop", !.maxRetries = r]
    /\ UNCHANGED botegaVars

\* The test of the loop holds: getBotegaPrices(TRACKED_BOTEGA_TOKENS, true)
\* is called.
UbAttempt ==
    /\ ub.pc = "loop"
    /\ ub.attempt <= ub.maxRetries
    /\ GetBotegaPricesCall(Tokens, TRUE)
    /\ ub' = [ub EXCEPT !.pc = "await", !.calls = @ + 1]

\* getBotegaPrices has returned: priceData is returned when no price is null
\* or on the last attempt; otherwise the run sleeps and goes round again.
UbCheck ==
    /\ ub.pc = "await"
    /\ bg.pc = "done"
    /\ LET missingPrices == {t \in Tokens : IsMissing(bg.result[t])}
       IN  IF missingPrices = {} \/ ub.attempt = ub.maxRetries
           THEN /\ ub' = [ub EXCEPT !.pc = "done", !.outcome = "returned",
                                    !.returnedAt = ub.attempt, !.prices = bg.result]
                /\ UNCHANGED botegaVars
           ELSE /\ ub' = [ub EXCEPT !.pc = "loop", !.attempt = @ + 1]
                /\ bg' = BgIdle
                /\ UNCHANGED <<botegaCache, bgCalls>>

\* The loop ends without a return: { prices: {}, cacheInfo: {} }.
UbExhausted ==
    /\ ub.pc = "loop"
    /\ ub.attempt > ub.maxRetries
    /\ ub' = [ub EXCEPT !.pc = "done", !.outcome = "returned",
                        !.returnedAt = ub.attempt]
    /\ UNCHANGED botegaVars

notUbVars ==
    <<now, ticks, priceVars, chartVars, rw, tokenInfoVars, cal, tw, pg, tierCache,
      wt, gt, kv, rh, us, tk>>

BotegaUpdateNext ==
    \/ \E r \in -1..MaxRetries : UpdateAllBotegaPricesCall(r) /\ UNCHANGED notUbVars
    \/ UbAttempt /\ UNCHANGED notUbVars
    \/ GetBotegaPricesCache /\ UNCHANGED notBotegaVars
    \/ FetchBotegaSource /\ UNCHANGED notBotegaVars
    \/ FetchBotegaAO /\ UNCHANGED notBotegaVars
    \/ GetBotegaPricesWrite /\ UNCHANGED notBotegaVars
    \/ UbCheck /\ UNCHANGED notUbVars
    \/ UbExhausted /\ UNCHANGED notUbVars


\* ---- processOrder and updateFeeSavings (part_011) -------------------------------
\* The most processOrder calls one run of the cron makes for the order: the
\* order is listed again by every run of a day.
MaxRounds == 2

\* The processOrders runs under way at the same time.
Runs == {1, 2}

\* ex: 60 * 60 * 24 * 3 of the marker, in milliseconds.
ProcessedTtlMs == 3 * ONE_DAY_MS

\* marker: transak:processed:<id>; sends: for each Add-Savings message sent,
\* whether the marker was set when it was sent.
TkIdle ==
    [marker |-> NoEntry,
     run |-> [p \in Runs |-> [pc |-> "idle", rounds |-> 0, sawMarker |-> FALSE]],
     sends |-> <<>>]

\* redis.get(`transak:processed:${order.id}`) at time t.
MarkerSet(marker, t) == marker # NoEntry /\ t < marker.expiresAt

\* if (isOrderProcessed) return (SkipsProcessedNever: the test left out).
SkipsProcessedNever(isOrderProcessed) == FALSE
SkipsProcessed(isOrderProcessed) == isOrderProcessed

\* processOrder(order, apiKey) of run p: the marker is read; the read rejects,
\* which rejects the call, or the order is skipped, or updateFeeSavings is
\* entered.
ProcessOrderCall(p) ==
    /\ tk.run[p].pc = "idle"
    /\ tk.run[p].rounds < MaxRounds
    /\ \E ok \in BOOLEAN :
         LET isOrderProcessed == MarkerSet(tk.marker, now)
         IN  tk' = [tk EXCEPT
                 !.run[p].rounds = @ + 1,
                 !.run[p].sawMarker = ok /\ isOrderProcessed,
                 !.run[p].pc = IF ~ok \/ SkipsProcessed(isOrderProcessed) THEN "idle"
                               ELSE "message"]

\* updateFeeSavings up to the end of its first await: without WALLET or when
\* the message fails the catch block ends the call; otherwise the Add-Savings
\* message has been sent.
UpdateFeeSavingsMessage(p) ==
    /\ tk.run[p].pc = "message"
    /\ \/ tk' = [tk EXCEPT !.run[p].pc = "idle"]
       \/ tk' = [tk EXCEPT !.run[p].pc = "set",
                           !.sends = Append(@, [run |-> p,
                                                markerSet |-> MarkerSet(tk.marker, now)])]

\* redis.set(`transak:processed:${orderId}`, true, { ex: 3 days }): the marker
\* is written, or the set rejects and the catch block logs it.
UpdateFeeSavingsSet(p) ==
    /\ tk.run[p].pc = "set"
    /\ \/ tk' = [tk EXCEPT !.run[p].pc = "idle"]
       \/ tk' = [tk EXCEPT !.run[p].pc = "idle",
                           !.marker = [value |-> TRUE, expiresAt |-> now + ProcessedTtlMs]]

\* Three days pass.
MarkerTick ==
    /\ ticks < MaxTicks
    /\ now' = now + ProcessedTtlMs
    /\ ticks' = ticks + 1

notTkVars ==
    <<now, ticks, priceVars, botegaVars, chartVars, rw, tokenInfoVars, cal, tw, pg,
      tierCache, wt, gt, kv, rh, us, ub>>

TransakNext ==
    \/ \E p \in Runs : ProcessOrderCall(p) /\ UNCHANGED notTkVars
    \/ \E p \in Runs : UpdateFeeSavingsMessage(p) /\ UNCHANGED notTkVars
    \/ \E p \in Runs : UpdateFeeSavingsSet(p) /\ UNCHANGED notTkVars
    \/ MarkerTick /\ UNCHANGED serviceVars


\* ---- specifications -----------------------------------------------------------
\* Every service at rest over an empty store.
Init ==
    /\ now = StartTime
    /\ ticks = 0
    /\ priceCache = [k \in PriceKeys |-> NoEntry]
    /\ cgCalls = 0
    /\ gpCalls = 0
    /\ gp = GpIdle
    /\ botegaCache = [t \in Tokens |-> NoEntry]
    /\ bgCalls = 0
    /\ bg = BgIdle
    /\ chartCache = [k \in ChartKeys |-> NoEntry]
    /\ mcCalls = 0
    /\ mc = McIdle
    /\ rw = RwIdle
    /\ tokenInfoCache = [t \in TokenIds |-> NoEntry]
    /\ upd = UpdIdle
    /\ cal = CalIdle
    /\ tw = TwIdle
    /\ pg = PgIdle
    /\ tierCache = [k \in {TIER_INFO_KEY} |-> NoEntry]
    /\ wt = WtIdle
    /\ gt = GtIdle
    /\ kv = [k \in HelperKeys |-> NoEntry]
    /\ rh = RhIdle
    /\ us = UsIdle
    /\ ub = UbIdle
    /\ tk = TkIdle

\* Every service at rest; the botega:price:* keys hold what earlier calls left.
InitBotega ==
    /\ now = StartTime
    /\ ticks = 0
    /\ priceCache = [k \in PriceKeys |-> NoEntry]
    /\ cgCalls = 0
    /\ gpCalls = 0
    /\ gp = GpIdle
    /\ botegaCache \in [Tokens -> StoredBotegaEntries]
    /\ bgCalls = 0
    /\ bg = BgIdle
    /\ chartCache = [k \in ChartKeys |-> NoEntry]
    /\ mcCalls = 0
    /\ mc = McIdle
    /\ rw = RwIdle
    /\ tokenInfoCache = [t \in TokenIds |-> NoEntry]
    /\ upd = UpdIdle
    /\ cal = CalIdle
    /\ tw = TwIdle
    /\ pg = PgIdle
    /\ tierCache = [k \in {TIER_INFO_KEY} |-> NoEntry]
    /\ wt = WtIdle
    /\ gt = GtIdle
    /\ kv = [k \in HelperKeys |-> NoEntry]
    /\ rh = RhIdle
    /\ us = UsIdle
    /\ ub = UbIdle
    /\ tk = TkIdle

\* Every service at rest; every token id has a tokenInfo:* key written earlier.
InitRefresh ==
    /\ now = StartTime
    /\ ticks = 0
    /\ priceCache = [k \in PriceKeys |-> NoEntry]
    /\ cgCalls = 0
    /\ gpCalls = 0
    /\ gp = GpIdle
    /\ botegaCache = [t \in Tokens |-> NoEntry]
    /\ bgCalls = 0
    /\ bg = BgIdle
    /\ chartCache = [k \in ChartKeys |-> NoEntry]
    /\ mcCalls = 0
    /\ mc = McIdle
    /\ rw = RwIdle
    /\ tokenInfoCache = [t \in TokenIds |-> NewTokenEntry(0, StartTime - TtlMs)]
    /\ upd = UpdIdle
    /\ cal = CalIdle
    /\ tw = TwIdle
    /\ pg = PgIdle
    /\ tierCache = [k \in {TIER_INFO_KEY} |-> NoEntry]
    /\ wt = WtIdle
    /\ gt = GtIdle
    /\ kv = [k \in HelperKeys |-> NoEntry]
    /\ rh = RhIdle
    /\ us = UsIdle
    /\ ub = UbIdle
    /\ tk = TkIdle

\* Every service at rest over an empty store, a day later.
InitTier ==
    /\ now = StartTime + ONE_DAY_MS
    /\ ticks = 0
    /\ priceCache = [k \in PriceKeys |-> NoEntry]
    /\ cgCalls = 0
    /\ gpCalls = 0
    /\ gp = GpIdle
    /\ botegaCache = [t \in Tokens |-> NoEntry]
    /\ bgCalls = 0
    /\ bg = BgIdle
    /\ chartCache = [k \in ChartKeys |-> NoEntry]
    /\ mcCalls = 0
    /\ mc = McIdle
    /\ rw = RwIdle
    /\ tokenInfoCache = [t \in TokenIds |-> NoEntry]
    /\ upd = UpdIdle
    /\ cal = CalIdle
    /\ tw = TwIdle
    /\ pg = PgIdle
    /\ tierCache = [k \in {TIER_INFO_KEY} |-> NoEntry]
    /\ wt = WtIdle
    /\ gt = GtIdle
    /\ kv = [k \in HelperKeys |-> NoEntry]
    /\ rh = RhIdle
    /\ us = UsIdle
    /\ ub = UbIdle
    /\ tk = TkIdle

\* Every service at rest a day later; the wallets-tier-info key holds what an
\* earlier call left.
InitTierInfo ==
    /\ now = StartTime + ONE_DAY_MS
    /\ ticks = 0
    /\ priceCache = [k \in PriceKeys |-> NoEntry]
    /\ cgCalls = 0
    /\ gpCalls = 0
    /\ gp = GpIdle
    /\ botegaCache = [t \in Tokens |-> NoEntry]
    /\ bgCalls = 0
    /\ bg = BgIdle
    /\ chartCache = [k \in ChartKeys |-> NoEntry]
    /\ mcCalls = 0
    /\ mc = McIdle
    /\ rw = RwIdle
    /\ tokenInfoCache = [t \in TokenIds |-> NoEntry]
    /\ upd = UpdIdle
    /\ cal = CalIdle
    /\ tw = TwIdle
    /\ pg = PgIdle
    /\ tierCache \in [{TIER_INFO_KEY} -> StoredTierEntries(StartTime + ONE_DAY_MS)]
    /\ wt = WtIdle
    /\ gt = GtIdle
    /\ kv = [k \in HelperKeys |-> NoEntry]
    /\ rh = RhIdle
    /\ us = UsIdle
    /\ ub = UbIdle
    /\ tk = TkIdle

\* getPrice calls, one after another, while time passes.
SpecPrice == Init /\ [][PriceNext]_vars

\* getMarketChart calls, one after another, while time passes.
SpecChart == Init /\ [][ChartNext]_vars

\* One getBotegaPrices call from any state of the store.
SpecBotega == InitBotega /\ [][BotegaNext]_vars

\* Runs of retryWithDelay with any maxAttempts and any getDelay.
SpecRetry == Init /\ [][RetryNext]_vars

\* Daily runs of getTodayChunk, and getTokenChunk on any token id.
SpecChunk == Init /\ [][ChunkNext]_vars

\* One run of updateAllTokenInfos over the tokenInfo:* keys.
SpecRefresh == InitRefresh /\ [][RefreshNext]_vars

\* One getWalletsTierInfoFromAo call.
SpecTier == InitTier /\ [][TierNext]_vars

\* getWalletTier and calculateTierProgressPercent on one rank of any total.
SpecProgress == Init /\ [][ProgressNext]_vars

\* getTokenInfo and getTokenInfoFromAo calls of one version of the service,
\* one after another.
SpecTokenInfo == Init /\ [][TokenInfoNext]_vars

\* Calls of the redisHelper of one version, one after another, while time
\* passes.
SpecHelper == Init /\ [][HelperNext]_vars

\* One updateAllTokenInfos run of lib/tokenInfoService.ts.
SpecServiceRefresh == InitRefresh /\ [][ServiceRefreshNext]_vars

\* One run of the refresher of part_007 and one getTokenInfo call, interleaved.
SpecRace == InitRefresh /\ [][RaceNext]_vars

\* One updateAllBotegaPrices run over an empty store.
SpecBotegaUpdate == Init /\ [][BotegaUpdateNext]_vars

\* processOrder calls of two concurrent processOrders runs for one order.
SpecTransak == Init /\ [][TransakNext]_vars

\* One getWalletsTierInfo call over what the key holds.
SpecTierInfo == InitTierInfo /\ [][TierInfoNext]_vars

\* ---- claims about getPrice -------------------------------------------------
GpKey == PriceKey(gp.symbol, gp.currency)

C2_FreshHitNoFetch ==
    /\ (/\ gp.pc \notin {"idle", "read"}
        /\ gp.cachedPrice # NoEntry
        /\ gp.readAt - gp.cachedPrice.timestamp < FreshMs) =>
           /\ gp.pc = "done"
           /\ gp.result.status = "ok"
           /\ gp.result.fresh
           /\ gp.result.price = gp.cachedPrice.price
           /\ cgCalls = gp.cgAtCall
           /\ priceCache = gp.cacheAtCall
    /\ (/\ gp.pc = "done" /\ gp.path = "hit"
        /\ gp.prevResult.status = "ok"
        /\ gp.prevKey = GpKey
        /\ gp.prevResult.cachedAt = gp.result.cachedAt) =>
           gp.result.price = gp.prevResult.price

\* A second resolution of a key was served from the entry written by the first.
C2_Witness ==
    /\ gp.pc = "done" /\ gp.path = "hit"
    /\ gp.prevResult.status = "ok" /\ gp.prevKey = GpKey
    /\ gp.prevResult.cachedAt = gp.result.cachedAt
    /\ gp.readAt > gp.cachedPrice.timestamp
    /\ cgCalls = gp.cgAtCall

\* C3: for every key, a getPrice call that read no entry and whose fetch
\* succeeded leaves the cache holding an entry for the key with the fetched
\* price and the time of the resolution, and returns fresh = true.
C3_MissPopulatesCache ==
    (gp.pc = "done" /\ gp.path = "fetched" /\ gp.cachedPrice = NoEntry) =>
        /\ gp.result.fresh
        /\ priceCache[GpKey] # NoEntry
        /\ priceCache[GpKey].price = gp.result.price
        /\ ToISOString(priceCache[GpKey].timestamp) = gp.result.cachedAt

\* ---- claims about getMarketChart ----------------------------------------------
\* C4: a getMarketChart call with a valid period that starts while the cache
\* holds an entry for its key returns a value and does not throw, whatever the
\* upstream answers and however the entry's expiry or a failing cache read
\* falls between the call's two cache reads.
C4_ChartNeverThrowsWithCache ==
    (mc.pc = "done" /\ mc.days \in VALID_TIME_PERIODS /\ mc.existedAtStart) =>
        mc.result.status = "ok"

\* ---- claims about fetchBotegaPrices and getBotegaPrices -------------------------
AllSourcesFailed ==
    /\ Len(bg.outcomes) = NumSources
    /\ \A k \in 1..NumSources : ~bg.outcomes[k]
ChainReturned == bg.pc \in {"write", "done"} /\ bg.tokensToFetch # {}

\* C5: fetchBotegaPrices invokes the price sources in their listed order, each
\* at most once; a source that fails is followed by the next one; once a source
\* has reported success no later source is invoked.
C5_SourcesInOrder ==
    /\ Len(bg.invoked) <= NumSources
    /\ \A k \in 1..Len(bg.invoked) : bg.invoked[k] = k
    /\ \A k \in 1..(Len(bg.invoked) - 1) : ~bg.outcomes[k]
    /\ (ChainReturned \/ bg.pc = "ao") =>
          /\ Len(bg.invoked) >= 1
          /\ ~bg.outcomes[Len(bg.outcomes)] => Len(bg.invoked) = NumSources

\* The first source failed, the second was invoked and succeeded.
C5_Witness ==
    bg.pc = "done" /\ bg.invoked = <<1, 2>> /\ bg.outcomes = <<FALSE, TRUE>>

\* C6: when source 1 fails and source 2 succeeds, for a request without the AO
\* token id, fetchBotegaPrices returns exactly the map source 2 returned: the
\* same keys with the same values, nulls included.
C6_SecondSourceVerbatim ==
    (ChainReturned /\ bg.outcomes = <<FALSE, TRUE>>
                   /\ AO_PROCESS_ID \notin bg.tokensToFetch) =>
        /\ bg.prices = bg.srcRet[2]
        /\ Keys(bg.prices) \subseteq bg.tokensToFetch

\* Source 2 priced a token after source 1 had answered the null map.
C6_Witness ==
    /\ bg.pc = "done" /\ bg.outcomes = <<FALSE, TRUE>>
    /\ AO_PROCESS_ID \notin bg.tokensToFetch
    /\ bg.srcRet[1] = NullMap(bg.tokensToFetch)
    /\ \E t \in bg.tokensToFetch : Truthy(bg.prices[t])

\* C7: when every price source fails, fetchBotegaPrices returns (it does not
\* throw) a map whose keys are exactly the requested ids, each mapped to null.
C7_AllFailedGivesNulls ==
    (bg.tokensToFetch # {} /\ AllSourcesFailed) =>
        /\ ChainReturned
        /\ Keys(bg.prices) = bg.tokensToFetch
        /\ \A t \in bg.tokensToFetch : bg.prices[t] = Null

\* Both sources failed for a request of two ids.
C7_Witness ==
    /\ AllSourcesFailed /\ bg.pc = "write"
    /\ Cardinality(bg.tokensToFetch) = 2

\* C8: fetchAOPrice is invoked at most once, only after a price source has
\* reported success, and only when the AO id was requested and the map of that
\* source holds no truthy price for it; it changes at most the AO entry of the
\* returned map; it is never invoked when every source failed.
C8_AOLookupOnlyAfterSuccess ==
    /\ bg.aoCalls <= 1
    /\ (bg.pc = "ao" \/ bg.aoCalls > 0) =>
          /\ bg.okSrc # 0
          /\ bg.outcomes[bg.okSrc]
          /\ AO_PROCESS_ID \in bg.tokensToFetch
          /\ ~Truthy(bg.srcRet[bg.okSrc][AO_PROCESS_ID])
    /\ (ChainReturned /\ bg.okSrc # 0) =>
          \A t \in Tokens \ {AO_PROCESS_ID} : bg.prices[t] = bg.srcRet[bg.okSrc][t]
    /\ AllSourcesFailed => bg.aoCalls = 0 /\ bg.pc # "ao"

\* The AO lookup filled in the AO price that the succeeding source lacked.
C8_Witness ==
    /\ bg.pc = "done" /\ bg.aoCalls = 1
    /\ bg.srcRet[bg.okSrc][AO_PROCESS_ID] = Null
    /\ Truthy(bg.prices[AO_PROCESS_ID])

\* C9: getBotegaPrices does not throw on provider failure and its prices
\* result holds an entry (a number or null) for every distinct requested id,
\* whatever the cache holds and whatever the providers answer.
C9_EveryIdAnswered ==
    (bg.pc = "done" /\ bg.readsFailed = {}) =>
        \A t \in bg.tokenIds : bg.result[t] # Undefined

\* C10: without forceRefresh, for a token whose cached price is non-null but
\* stale, when every price source fails the returned price is the cached price
\* and the cache entry keeps its price and timestamp.
C10_StaleKeptWhenAllFail ==
    (bg.pc = "done" /\ ~bg.forceRefresh /\ AllSourcesFailed) =>
        \A t \in bg.tokensToFetch :
            (bg.cachedRead[t] # NoEntry /\ Truthy(bg.cachedRead[t].price)) =>
                /\ bg.result[t] = bg.cachedRead[t].price
                /\ botegaCache[t] = bg.cacheAtCall[t]

\* ---- claims about retryWithDelay ---------------------------------------------
FnEvents == {i \in 1..Len(rw.events) : rw.events[i][1] = "fn"}
SleepEvents == {i \in 1..Len(rw.events) : rw.events[i][1] = "sleep"}

\* C17: a run with maxAttempts = n >= 1 whose fn fails on every attempt invokes
\* fn exactly n times, sleeps exactly n - 1 times and never after the last
\* failed attempt, and then rejects with the error of the n-th invocation.
C17_ExhaustedAfterNAttempts ==
    (rw.pc = "done" /\ rw.maxAttempts >= 1
        /\ Len(rw.thrown) = Cardinality(FnEvents)) =>
        /\ rw.outcome = "threw"
        /\ Cardinality(FnEvents) = rw.maxAttempts
        /\ Cardinality(SleepEvents) = rw.maxAttempts - 1
        /\ rw.events[Len(rw.events)][1] = "fn"
        /\ rw.error = rw.thrown[rw.maxAttempts]

\* Three failed invocations and two sleeps; the last error differs from the
\* first.
C17_Witness ==
    /\ rw.pc = "done" /\ rw.maxAttempts = DEFAULT_MAX_ATTEMPTS
    /\ Len(rw.thrown) = 3 /\ Len(rw.events) = 5
    /\ rw.thrown[1] # rw.thrown[3]

\* C18: the events of every run are fn(0), sleep(getDelay(0)), fn(1),
\* sleep(getDelay(1)), ...; the run stops at the first invocation that
\* resolves and returns its value, with no invocation and no sleep after it.
C18_EventSequence ==
    /\ \A i \in 1..Len(rw.events) :
          IF i % 2 = 1
          THEN rw.events[i] = <<"fn", (i - 1) \div 2>>
          ELSE rw.events[i] = <<"sleep", rw.getDelay[(i \div 2) - 1]>>
    /\ rw.outcome = "returned" =>
          /\ rw.pc = "done"
          /\ rw.value = rw.resolved
          /\ rw.events[Len(rw.events)] = <<"fn", Len(rw.thrown)>>
    /\ rw.outcome # "returned" => Len(rw.thrown) = Cardinality(FnEvents)

\* The third invocation resolved after two sleeps of different lengths.
C18_Witness ==
    /\ rw.outcome = "returned" /\ Len(rw.events) = 5
    /\ rw.getDelay[0] # rw.getDelay[1]

\* ---- claims about chunk.utils.ts ----------------------------------------------
\* The chunks of the last numChunks daily runs.
LastCycle == SubSeq(cal.chunks, Len(cal.chunks) - cal.numChunks + 1, Len(cal.chunks))

\* C14: over any numChunks consecutive calendar days, year boundaries
\* included, getTodayChunk(numChunks) takes every value of 0..numChunks-1
\* exactly once.
C14_EveryChunkOncePerCycle ==
    Len(cal.chunks) >= cal.numChunks =>
        \A d \in 0..(cal.numChunks - 1) :
            Cardinality({i \in 1..cal.numChunks : LastCycle[i] = d}) = 1

\* C15: getTokenChunk(k, n) lies in 0..n-1 and is the same on every call for
\* the same (k, n), so the shards of 0..n-1 are pairwise disjoint and cover
\* every token id.
C15_ChunkInRangeAndStable ==
    /\ cal.tokenChunk # Undefined =>
          /\ cal.tokenChunk \in 0..(cal.numChunks - 1)
          /\ (cal.prevChunk # Undefined /\ cal.prevId = cal.tokenId) =>
                cal.tokenChunk = cal.prevChunk
    /\ \A n \in 1..MaxChunks : \A id \in HashInputs :
          Cardinality({d \in 0..(n - 1) : TokenChunks[n][id] = d}) = 1

\* The same two-character id was hashed twice into four chunks and did not
\* land in chunk 0.
C15_Witness ==
    /\ cal.numChunks = MaxChunks /\ Len(cal.tokenId) = 2
    /\ cal.prevChunk # Undefined /\ cal.prevId = cal.tokenId
    /\ cal.tokenChunk > 0

\* ---- claims about updateAllTokenInfos ------------------------------------------
\* The token ids whose chunk is the chunk of the day the run started on.
ChunkOfStartDay == {t \in TokenIds :
                      TokenChunks[upd.numChunks][t] = getTodayChunk(upd.startHour, upd.numChunks)}

\* C11, for the refresher of part_007: every scanned page with a key of
\* today's chunk gets exactly one pipelined write, issued when every fetch task
\* of the page has settled and holding exactly the keys of the page whose fetch
\* succeeded; before it the run writes no key of the page.
C11_OnePipelinePerPage ==
    /\ Len(upd.log) = IF upd.pc = "page" THEN upd.taskPages - 1 ELSE upd.taskPages
    /\ \A i \in 1..Len(upd.log) :
          /\ upd.log[i].keys # {}
          /\ upd.log[i].unsettled = {}
          /\ upd.log[i].pipeline = upd.log[i].keys \cap upd.resolvedFetches
    /\ upd.pc = "page" =>
          \A t \in PageTasks(upd.tasks) : tokenInfoCache[t] = upd.cacheAtCall[t]

\* The pipeline of a page of two keys held the one key whose fetch succeeded,
\* and was written.
C11_Witness ==
    \E i \in 1..Len(upd.log) :
        /\ Cardinality(upd.log[i].keys) = 2
        /\ Cardinality(upd.log[i].pipeline) = 1
        /\ upd.log[i].execOk
        /\ \E t \in upd.log[i].pipeline : tokenInfoCache[t] # upd.cacheAtCall[t]

\* C12: at every moment of a run at most `concurrency` fetches are in flight.
C12_InFlightBounded ==
    Cardinality(InFlight(upd.tasks)) <= upd.concurrency

\* With concurrency 1 a fetch is in flight, after a failed attempt of its
\* task, while another task of the page waits.
C12_Witness ==
    /\ upd.concurrency = 1
    /\ \E t \in TokenIds : upd.tasks[t].st = "fetching" /\ upd.tasks[t].attempts = 1
    /\ \E t \in TokenIds : upd.tasks[t].st = "queued"

\* C13: a run fetches and writes a tokenInfo key only if the key's chunk is
\* the value of getTodayChunk at the start of the run; the entries of the keys
\* of every other chunk stay as they were.
C13_OnlyTodaysChunk ==
    \A t \in TokenIds :
        (upd.fetchCount[t] > 0 \/ tokenInfoCache[t] # upd.cacheAtCall[t]
            \/ upd.tasks[t].st # "none" \/ upd.results[t] # Undefined)
        => t \in ChunkOfStartDay

\* A run that went over midnight wrote a key on its second page, by which
\* time the chunk of the day was another one.
C13_Witness ==
    /\ upd.pc = "done" /\ upd.hour # upd.startHour
    /\ getTodayChunk(upd.hour, upd.numChunks) # upd.todayChunk
    /\ Len(upd.log) >= 1
    /\ \E t \in TokenIds : tokenInfoCache[t] # upd.cacheAtCall[t]
    /\ \E t \in TokenIds \ ChunkOfStartDay : tokenInfoCache[t] = upd.cacheAtCall[t]

TierThresholdPercents == <<2, 20, 50, 80, 100>>

\* The least tier i of 1..5 with rank <= ceil(threshold_i * total / 100): the
\* ceiling is the least integer m with 100 * m >= threshold_i * total, so the
\* rank is covered when every integer below it is below threshold_i * total / 100.
LeastCoveringTier(rank, total) ==
    LET Covers(i) == \A m \in 0..(rank - 1) : 100 * m < TierThresholdPercents[i] * total
        tiers == {i \in 1..5 : Covers(i)}
    IN  CHOOSE i \in tiers : \A k \in tiers : i <= k

\* C19: for total >= 1 and rank in 1..total, getWalletTier(rank, total) is the
\* least tier i with rank <= ceil(threshold_i * total / 100); the tier of
\* (1, 100) is 1 and the tier of (100, 100) is 5.
C19_TierIsLeastCovering ==
    /\ (tw.outcome = "returned" /\ tw.path = "fallback") =>
          \A a \in DOMAIN tw.result.walletsTierInfo :
              tw.result.walletsTierInfo[a].tier =
                  LeastCoveringTier(tw.result.walletsTierInfo[a].rank,
                                    tw.result.totalWallets)
    /\ getWalletTier(1, 100) = 1
    /\ getWalletTier(100, 100) = 5

\* The fallback ranked seven wallets and the tiers 1 to 5 all occur.
C19_Witness ==
    /\ tw.outcome = "returned" /\ tw.path = "fallback"
    /\ tw.result.totalWallets = 7
    /\ {tw.result.walletsTierInfo[a].tier : a \in DOMAIN tw.result.walletsTierInfo} = 1..5

\* C20: on the fallback path the wallet at 0-based position j of a ledger
\* list of length N gets rank j + 1, tier getWalletTier(j + 1, N), progress
\* calculateTierProgressPercent(j + 1, N) and totalHolders N; the tiers of ten
\* wallets in list order are 1, 2, 3, 3, 3, 4, 4, 4, 5, 5.
C20_FallbackRanksByPosition ==
    (tw.outcome = "returned" /\ tw.path = "fallback") =>
        LET wallets == rw.resolved.wallets
            N == Len(wallets)
            info == tw.result.walletsTierInfo
        IN  /\ DOMAIN info = {wallets[p].address : p \in 1..N}
            /\ \A p \in 1..N :
                  /\ info[wallets[p].address].rank = p
                  /\ info[wallets[p].address].tier = getWalletTier(p, N)
                  /\ info[wallets[p].address].progress = calculateTierProgressPercent(p, N)
                  /\ info[wallets[p].address].totalHolders = N
            /\ N = 10 =>
                  [p \in 1..N |-> info[wallets[p].address].tier]
                      = <<1, 2, 3, 3, 3, 4, 4, 4, 5, 5>>

\* The fallback ranked ten wallets whose addresses are not in list order,
\* after a failed dryrun.
C20_Witness ==
    /\ tw.outcome = "returned" /\ tw.path = "fallback"
    /\ Len(rw.resolved.wallets) = 10
    /\ rw.resolved.wallets[1].address # 1
    /\ Len(rw.thrown) >= 1

\* C21: calculateTierProgressPercent(rank, total) is 0 when rank <= 0 or
\* total <= 0, and otherwise ((total - rank + 1) / total) * 100 truncated to
\* six decimals: in millionths, the integer part of
\* (total - rank + 1) * 10^8 / total, taken in two steps of 10^4.
C21_ProgressIsTruncatedPercent ==
    pg.pc = "done" =>
        LET a == pg.totalWallets - pg.walletRank + 1
            n == pg.totalWallets
        IN  pg.progress =
                IF pg.walletRank <= 0 \/ n <= 0 THEN 0
                ELSE ((a * 10000) \div n) * 10000 + (((a * 10000) % n) * 10000) \div n

\* The ranks of a total that the progress ranges speak of.
RankOfTotal == pg.pc = "done" /\ pg.totalWallets >= 1 /\ pg.walletRank \in 1..pg.totalWallets

TotalsDiffer ==
    /\ tw.primary # "none"
    /\ tw.seen.ok
    /\ tw.seen.first # <<>>
    /\ tw.seen.first[1].totalHolders # tw.seen.valid

\* The snapshot is the one built from the list the ledger returned.
FromLedger(snapshot) ==
    /\ rw.outcome = "returned"
    /\ snapshot.snapshotTimestamp = rw.value.snapshotTimestamp
    /\ snapshot.totalWallets = Len(rw.value.wallets)
    /\ DOMAIN snapshot.walletsTierInfo =
           {rw.value.wallets[j].address : j \in 1..Len(rw.value.wallets)}

\* C22: a primary snapshot whose declared totalHolders differs from the number
\* of its address-format-valid records is never returned or cached: the call
\* takes the fallback, and what it returns and what is then written under the
\* key is the snapshot of the ledger.
C22_MismatchIsDiscarded ==
    TotalsDiffer =>
        /\ tw.path = "fallback"
        /\ (tw.pc = "done" /\ tw.outcome = "returned") => FromLedger(tw.result)
        /\ wt.stored => FromLedger(tierCache[TIER_INFO_KEY].value)

\* Two kept records declare one holder (no other check fails); the ledger's
\* snapshot was returned and cached.
C22_Witness ==
    /\ TotalsDiffer
    /\ tw.seen.valid = 2
    /\ tw.seen.first[1].totalHolders = 1
    /\ tw.seen.first[1].snapshotTimestamp = now - 1
    /\ wt.stored
    /\ FromLedger(tierCache[TIER_INFO_KEY].value)

\* C23: a primary snapshot is accepted only if now - snapshotTimestamp < 24h;
\* one whose age is 24h or more is discarded for the fallback.
C23_AcceptedOnlyBelowADay ==
    tw.path = "primary" =>
        tw.checkedAt - tw.seen.first[1].snapshotTimestamp < ONE_DAY_MS

\* C24: when getWalletsTierInfoFromAo returned a snapshot (and the store is
\* up), the call has written the entire snapshot under the key with the time
\* to live snapshotTimestamp + 24h - now in whole seconds; and the snapshot a
\* call finds in the cache is less than 24h old.
C24_SnapshotCachedUntilADayOld ==
    /\ (wt.pc = "done" /\ ~wt.hit /\ ~wt.getFailed /\ ~wt.setFailed
            /\ tw.outcome = "returned") =>
           tierCache[TIER_INFO_KEY] =
               [value |-> tw.result,
                expiresAt |-> now + ((tw.result.snapshotTimestamp + ONE_DAY_MS - now)
                                         \div 1000) * 1000]
    /\ wt.hit => now - wt.snapshot.snapshotTimestamp < ONE_DAY_MS

\* C25: getWalletsTierInfo(addresses) returns one record per distinct
\* requested address: the record of the snapshot in use when the address is in
\* it, and otherwise balance "0", empty rank, tier 5, progress 0 with the
\* snapshotTimestamp and the totalWallets of the snapshot in use; and after a
\* cache hit neither endpoint has been called.
C25_OneRecordPerAddress ==
    (wt.pc = "done" /\ wt.outcome = "returned") =>
        LET inUse == IF wt.hit THEN tierCache[TIER_INFO_KEY].value ELSE tw.result
            asked == {wt.addresses[i] : i \in 1..Len(wt.addresses)}
        IN  /\ DOMAIN wt.result = asked
            /\ \A a \in asked :
                 wt.result[a] =
                    IF a \in DOMAIN inUse.walletsTierInfo
                    THEN inUse.walletsTierInfo[a]
                    ELSE [balance |-> 0, rank |-> EMPTY_RANK, tier |-> 5, progress |-> 0,
                          snapshotTimestamp |-> inUse.snapshotTimestamp,
                          totalHolders |-> inUse.totalWallets]
            /\ wt.hit => (tw = TwIdle /\ rw = RwIdle)

\* A hit that answers <<1, 0, 1>>: address 1 from the snapshot, address 0 with
\* the default record.
C25_Witness ==
    /\ wt.pc = "done"
    /\ wt.outcome = "returned"
    /\ wt.hit
    /\ wt.addresses = <<1, 0, 1>>
    /\ wt.result[1].rank = 1
    /\ wt.result[0].rank = EMPTY_RANK
    /\ wt.result[0].totalHolders = 2

\* C28: every snapshot getWalletsTierInfoFromAo returns, from the primary
\* endpoint or from the ledger, has a snapshotTimestamp less than 24h old when
\* it is returned.
C28_ReturnedSnapshotBelowADay ==
    (tw.pc = "done" /\ tw.outcome = "returned") =>
        now - tw.result.snapshotTimestamp < ONE_DAY_MS

\* C29: every snapshot getWalletsTierInfo caches has totalWallets equal to the
\* number of its records, and every record's totalHolders equal to it.
C29_CachedTotalsAgree ==
    wt.stored =>
        LET snapshot == tierCache[TIER_INFO_KEY].value
        IN  /\ snapshot.totalWallets = Cardinality(DOMAIN snapshot.walletsTierInfo)
            /\ \A a \in DOMAIN snapshot.walletsTierInfo :
                 snapshot.walletsTierInfo[a].totalHolders = snapshot.totalWallets

\* C27: getTokenInfoFromAo(tokenId, save) writes tokenInfo:<tokenId> if and
\* only if save is true: once the dryrun has answered, redis.set was called
\* exactly when save is true, a returned call with save = true has left the
\* fetched value under the key, and a call with save = false has left every
\* key as it was.
C27_WritesIffSave ==
    (gt.pc = "done" /\ gt.fetched) =>
        /\ (gt.sets = 1) <=> gt.save
        /\ (gt.save /\ gt.outcome = "returned") =>
               tokenInfoCache[gt.tokenId].tokenInfo = gt.tokenInfo
        /\ ~gt.save => tokenInfoCache = gt.cacheAtCall

\* C11, the fetches of the refresher: a getTokenInfoFromAo(tokenId, false)
\* call, as the refresher of either version makes it for a key of the page,
\* performs no cache write: when it has settled every key is as it was.
C11_RefresherFetchWritesNothing ==
    (gt.pc = "done" /\ gt.caller = "getTokenInfoFromAo" /\ ~gt.save) =>
        tokenInfoCache = gt.cacheAtCall

\* C26: when the store is unconfigured or a cache command fails, the get of
\* the redisHelper returns null and its set changes nothing, and neither
\* throws.
C26_HelperSoftFails ==
    (rh.op # "none" /\ (rh.redisClient = "null" \/ rh.commandFailed)) =>
        /\ rh.outcome = "returned"
        /\ rh.op = "get" => rh.result = JsNull
        /\ rh.op = "set" => kv = rh.storeBefore

\* C31: for every rank >= 0 and every total >= 0, getWalletTier returns a tier
\* in 1..5 without throwing; rank 0 yields tier 5, and a rank that no
\* threshold covers, whatever the total (0 included), yields tier 5.
C31_TierAlwaysInRange ==
    (pg.pc # "idle" /\ pg.walletRank >= 0 /\ pg.totalWallets >= 0) =>
        /\ pg.tier \in 1..5
        /\ pg.walletRank = 0 => pg.tier = CORE
        /\ (pg.totalWallets = 0 \/ pg.walletRank > pg.totalWallets) => pg.tier = CORE

\* What the call read of the primary answer passes every check of the try
\* block: the response is ok, a wallet was kept, the first kept wallet has a
\* timestamp and a total, the total is the number of kept wallets and the
\* snapshot was at most a day old when it was checked.
SeenValid ==
    /\ tw.seen.ok
    /\ tw.seen.valid >= 1
    /\ tw.seen.first[1].snapshotTimestamp # 0
    /\ tw.seen.first[1].totalHolders # 0
    /\ tw.seen.valid = tw.seen.first[1].totalHolders
    /\ tw.checkedAt - tw.seen.first[1].snapshotTimestamp <= ONE_DAY_MS

\* C32: in getWalletsTierInfoFromAo the ledger is queried if and only if the
\* primary fetch failed or its result was discarded by validation; a valid
\* primary snapshot is returned and no ledger query is made.
C32_FallbackIffPrimaryDiscarded ==
    /\ InstancesQueried # <<>> => (tw.pc \in {"fallback", "done"} /\ ~SeenValid)
    /\ tw.pc = "done" =>
          /\ InstancesQueried # <<>> <=> ~SeenValid
          /\ SeenValid =>
                /\ tw.outcome = "returned"
                /\ tw.path = "primary"
                /\ tw.result.snapshotTimestamp = tw.seen.first[1].snapshotTimestamp
                /\ tw.result.totalWallets = tw.seen.valid

\* The primary snapshot was found more than a day old and the ledger answered
\* the first query.
C32_Witness ==
    /\ tw.pc = "done"
    /\ tw.primary = "tooOld"
    /\ tw.outcome = "returned"
    /\ Len(InstancesQueried) = 1

\* C33: on the fallback path attempt k goes to customAoInstance when k is
\* even and to ourAoInstance when k is odd; with the default three attempts
\* the order is custom, our, custom, and the fallback rejects only after all
\* three attempts have failed.
C33_EndpointsAlternate ==
    tw.path = "fallback" =>
        /\ \A k \in 1..Len(InstancesQueried) :
              InstancesQueried[k] = IF k \in {1, 3} THEN "customAoInstance"
                                    ELSE "ourAoInstance"
        /\ Len(InstancesQueried) <= 3
        /\ tw.outcome = "threw" =>
              /\ InstancesQueried = <<"customAoInstance", "ourAoInstance", "customAoInstance">>
              /\ Len(rw.thrown) = 3

\* The fallback rejected after its third query.
C33_Witness ==
    /\ tw.path = "fallback"
    /\ tw.outcome = "threw"
    /\ Len(InstancesQueried) = 3

\* C34: updateAllTokenInfos scans with the cursor the previous scan returned
\* until a scan returns cursor 0, across pages without a key to process as
\* well, and then returns: a run that returns has processed every page
\* exactly once.
C34_ScanFollowsCursor ==
    /\ \A k \in 2..Len(us.scans) : us.scans[k].sent = us.scans[k - 1].nextCursor
    /\ (us.pc = "scan" /\ us.scans # <<>>) =>
          us.scans[Len(us.scans)].nextCursor # CursorZero
    /\ us.outcome = "returned" =>
          [k \in 1..Len(us.scans) |-> us.scans[k].page] = [i \in 1..Len(us.chain) |-> i]

C36_EntryReadBack ==
    [][(/\ now' = now
        /\ rh'.op = "get"
        /\ rh'.outcome = "returned"
        /\ rh'.redisClient = "client"
        /\ ~rh'.commandFailed
        /\ rh.lastSet[rh'.key] \in {EntryObject, <<"string", EntryText>>}
        /\ IoredisGet(kv, rh'.key, now) # NoEntry)
       => rh'.result = EntryObject]_vars

\* C37: getBotegaPrices calls the provider chain at most once, with exactly
\* the distinct requested ids that have no cache entry or a stale one (age at
\* least five minutes), or with all of them when forceRefresh is true; when
\* every requested id has a fresh entry and forceRefresh is false no provider
\* is invoked and the cached prices are returned.  An entry five minutes old
\* when the call started is stale at the lookup, and an entry that is fresh
\* now was fresh at the lookup.
C37_FetchesExactlyTheStale ==
    bg.pc \notin {"idle", "cache"} =>
        LET held == bg.cacheAtCall
            mustFetch == {t \in bg.tokenIds :
                            \/ bg.forceRefresh
                            \/ held[t] = NoEntry
                            \/ StartTime - held[t].timestamp >= FreshMs}
            mustServe == {t \in bg.tokenIds :
                            /\ ~bg.forceRefresh
                            /\ RedisGet(held, t, now) # NoEntry
                            /\ now - held[t].timestamp < FreshMs}
        IN  /\ mustFetch \subseteq bg.tokensToFetch
            /\ bg.tokensToFetch \subseteq bg.tokenIds \ mustServe
            /\ \A j, k \in 1..Len(bg.invoked) : j < k => bg.invoked[j] < bg.invoked[k]
            /\ bg.tokensToFetch = {} => bg.invoked = <<>>
            /\ mustServe = bg.tokenIds =>
                  /\ bg.invoked = <<>>
                  /\ \A t \in bg.tokenIds : bg.result[t] = held[t].price

\* C38: updateAllBotegaPrices(maxRetries, retryDelay) calls getBotegaPrices
\* at most maxRetries + 1 times, never throws, and returns before the last
\* attempt only when every tracked token has a price that is not null in the
\* result it returns.
C38_EarlyReturnHasAllPrices ==
    /\ ub.calls <= ub.maxRetries + 1
    /\ ub.outcome # "threw"
    /\ (ub.pc = "done" /\ ub.returnedAt < ub.maxRetries) =>
          \A t \in Tokens : ub.prices[t] \notin {Null, Undefined}

\* C39: every token id in the map returned by updateAllTokenInfos has had its
\* freshly fetched value written to the cache during the run: the map holds
\* no key whose pipelined write failed or was not executed.
C39_ReturnedIdsWereWritten ==
    upd.outcome = "returned" =>
        \A t \in TokenIds :
            upd.results[t] # Undefined =>
                /\ \E k \in 1..Len(upd.log) : t \in upd.log[k].pipeline /\ upd.log[k].execOk
                /\ tokenInfoCache[t] = [tokenInfo |-> upd.results[t], timestamp |-> now]

\* C40: for a Transak order the Add-Savings message is sent at most once while
\* its transak:processed:<id> marker is unexpired, in every interleaving of
\* concurrent processOrders runs: no message is sent while the marker is set,
\* a call that read the marker as set sends nothing, and the marker is set
\* only after a message was sent.
C40_SentOncePerMarker ==
    /\ \A k \in 1..Len(tk.sends) : ~tk.sends[k].markerSet
    /\ \A p \in Runs : tk.run[p].sawMarker => tk.run[p].pc = "idle"
    /\ tk.marker # NoEntry => tk.sends # <<>>

====
